---- MODULE Spec2Model ----
(***************************************************************************)
(* Outbound SMTP delivery of one queued message (queue_id fixed):          *)
(* QueuedMessage::try_deliver, QueuedMessage::deliver_task,                *)
(* Message::has_pending_delivery, Domain::set_status and Domain::retry of  *)
(* crates/smtp/src/outbound/delivery.rs.                                   *)
(*                                                                         *)
(* Every worker is one tokio task spawned by try_deliver.  A worker owns a *)
(* deserialised copy of the message (loc[w].msg); the durable store, the   *)
(* lease and the clock are the only state shared between workers.  One     *)
(* action is one stretch of code between two suspension points that touch  *)
(* shared state or draw an answer from the environment (DNS, the rate      *)
(* limiter, the remote SMTP server, the store).  Sequences are 1-based, so *)
(* domain_idx, host and IP positions are the code's index plus one.        *)
(***************************************************************************)
EXTENDS Integers, Sequences, FiniteSets, TLC

\* ------------------------------------------------------------------ bounds
MaxTime     == 3   \* the clock now() runs over 0..MaxTime
LOCK_EXPIRY == 2   \* queue::spool::LOCK_EXPIRY, in clock units
MaxWorkers  == 2   \* concurrent try_deliver tasks for the queue_id
MaxAttempts == 2   \* try_deliver tasks spawned in one behaviour
MaxHosts    == 2   \* remote hosts kept for a domain (max_mx)
MaxIps      == 2   \* remote IPs kept for a host (max_multihomed)
ChanCap     == 1   \* capacity of the bounded channel queue_tx

\* --------------------------------------------------------------- constants
JitterLo == 5      \* rand::rng().random_range(5..10)
JitterHi == 9

Workers == 1..MaxWorkers

\* recipients[i].domain_idx of the queued message: one recipient in each of
\* two domains; one recipient; two recipients of one domain.
RcptDomain == <<1, 2>>
OneRcpt    == <<1>>
OneDomain  == <<1, 1>>

\* The retry schedules queue.retry may evaluate to (seconds); the code uses
\* vec![60s] when the expression yields nothing.  All are non-empty.
Schedules == {<<1>>, <<0, 2>>}

Min2(a, b) == IF a <= b THEN a ELSE b

SetMin(S) == CHOOSE x \in S : \A y \in S : x <= y

\* ------------------------------------------------------------------ Status
\* Status<R, E>: the variant k and, for failures, the kind of Error e.
Scheduled     == [k |-> "Scheduled", e |-> "none"]
Completed     == [k |-> "Completed", e |-> "none"]
TemporaryFailure(e) == [k |-> "TemporaryFailure", e |-> e]
PermanentFailure(e) == [k |-> "PermanentFailure", e |-> e]

Pending(st)  == st.k \in {"Scheduled", "TemporaryFailure"}
Terminal(st) == st.k \in {"Completed", "PermanentFailure"}

into_permanent(st) ==
    IF st.k = "TemporaryFailure" THEN PermanentFailure(st.e) ELSE st

into_temporary(st) ==
    IF st.k = "PermanentFailure" THEN TemporaryFailure(st.e) ELSE st

NoMsg == [none |-> TRUE]

\* ------------------------------------------------------------------- state
VARIABLES
    now,          \* store::write::now(), unix seconds
    lease,        \* the lock of the queue_id: [held, expires]
    store,        \* durable store: [msg, events]; events = dues of QueueEvent keys
    attempts,     \* try_deliver tasks spawned so far
    pc,           \* pc[w]: position of worker w in try_deliver / deliver_task
    loc,          \* loc[w]: the task's local variables
    log,          \* log[w]: what the last step of the domain loop did, and the
                  \* kinds of things done for each domain in this attempt
    completions,  \* completions[r]: transitions of recipient r to Completed (0, 1, many)
    removes,      \* calls of message.remove (0, 1, many)
    chan          \* ipc.queue_tx: [len, closed], len = WorkerDone events not yet received

vars == <<now, lease, store, attempts, pc, loc, log, completions, removes, chan>>

\* Locals of one iteration of the 'next_domain loop.
\* What the configuration expressions evaluate to (tls_strategy, the retry
\* schedule, implicit_tls) is drawn where the code uses the value.
DomLocals0 ==
    [hop         |-> "mx",         \* next hop: mx | implicit_mx | relay_smtp | relay_other
     tls_report  |-> FALSE,        \* tls_report.is_some()
     policy      |-> "none",       \* mta_sts_policy: none | testing | enforce
     last_status |-> Scheduled,    \* last_status
     dane_policy |-> FALSE,        \* dane_policy.is_some()
     ips         |-> 0]            \* resolve_result.remote_ips.len() (0: not resolved)

Loc0 ==
    [due    |-> 0,           \* self.due
     msg    |-> NoMsg,       \* message
     rcpts  |-> <<>>,        \* recipients (taken out of message)
     didx   |-> 0,           \* domain_idx + 1
     hidx   |-> 0,           \* position in remote_hosts
     iidx   |-> 0,           \* position in remote_ips
     d      |-> DomLocals0,
     result |-> [k |-> "none", until |-> 0],   \* status: QueueEventStatus
     expired0 |-> FALSE,     \* every domain had expires <= now when the message was read
     op     |-> "none",      \* store operation of the task: save | remove | clear
     op_ok  |-> FALSE,       \* ... and whether its write succeeded
     locked |-> FALSE,       \* try_lock_event returned true
     span   |-> FALSE,       \* a span_id was generated
     unlocks |-> 0]          \* calls of unlock_event (0, 1, many)

\* One thing done for a domain: e names it, h and i are the positions of the
\* remote host and IP (0 when none), strict is is_strict_tls where computed,
\* tls is tls_strategy.tls in the steps of a session at which TLS is not to
\* be had ("none" elsewhere), ips is the number of IPs of the host in the
\* steps at which the greeting or EHLO failed (0 elsewhere).
Ev(e, h, i, strict) ==
    [e |-> e, h |-> h, i |-> i, strict |-> strict, tls |-> "none", ips |-> 0]

NoLog == [dom |-> 0, ev |-> <<>>, seen |-> {}]

\* The message as the inbound path enqueued it at time 0.
DomainsOf(shape) == {shape[i] : i \in DOMAIN shape}

NewMessage(shape, exp, fl) ==
    [domains    |-> [d \in DomainsOf(shape) |->
                        [status |-> Scheduled, due |-> 0, inner |-> 0,
                         expires |-> exp[d]]],
     recipients |-> [r \in DOMAIN shape |->
                        [address |-> r, domain_idx |-> shape[r],
                         status |-> Scheduled]],
     flags      |-> fl]

Expiries == {2, MaxTime + 2}
Flags    == [requiretls : BOOLEAN, from_report : BOOLEAN]

\* Counters of the history stop at 2: "more than once".
Many == 2

\* Domain::retry is applied on its own while retry.inner is below MaxInner.
MaxInner == 3
Incr(n) == Min2(n + 1, Many)

InitWith(shape, FlagSet) ==
    /\ now = 0
    /\ lease = [held |-> FALSE, expires |-> 0]
    /\ \E exp \in [DomainsOf(shape) -> Expiries], fl \in FlagSet :
          store = [msg |-> NewMessage(shape, exp, fl), events |-> {0}]
    /\ attempts = 0
    /\ pc = [w \in Workers |-> "idle"]
    /\ loc = [w \in Workers |-> Loc0]
    /\ log = [w \in Workers |-> NoLog]
    /\ completions = [r \in DOMAIN shape |-> 0]
    /\ removes = 0
    /\ chan = [len |-> 0, closed |-> FALSE]

Init == InitWith(OneDomain, Flags)

InitQueue == InitWith(RcptDomain, {[requiretls |-> FALSE, from_report |-> FALSE]})

\* A message of one recipient; local delivery reads no flag.
InitConc == InitWith(OneRcpt, {[requiretls |-> FALSE, from_report |-> FALSE]})

\* ---------------------------------------------------------- Domain methods
\* A retry that counts the duration from the previous due time.
retry_from_due(dom, schedule, t) ==
    [dom EXCEPT !.due = dom.due + schedule[Min2(dom.inner, Len(schedule) - 1) + 1],
                !.inner = dom.inner + 1]

\* A retry that keeps the domain alive until after its new due time.
retry_extend(dom, schedule, t) ==
    [dom EXCEPT !.due = t + schedule[Min2(dom.inner, Len(schedule) - 1) + 1],
                !.inner = dom.inner + 1,
                !.expires = t + schedule[Min2(dom.inner, Len(schedule) - 1) + 1] + 1]

\* A retry that counts the attempt before it looks the duration up.
retry_counts_first(dom, schedule, t) ==
    [dom EXCEPT !.due = t + schedule[Min2(dom.inner + 1, Len(schedule) - 1) + 1],
                !.inner = dom.inner + 1]

\* Domain::retry (schedule is non-empty; index is 0-based in the code).
retry(dom, schedule, t) ==
    [dom EXCEPT !.due = t + schedule[Min2(dom.inner, Len(schedule) - 1) + 1],
                !.inner = dom.inner + 1]

\* A set_status that clears the retry counter once the domain is settled.
set_status_reset(dom, status, schedule, t) ==
    LET d1 == [dom EXCEPT !.status = status]
    IN  IF status.k \in {"TemporaryFailure", "Scheduled"}
        THEN retry(d1, schedule, t)
        ELSE [d1 EXCEPT !.inner = 0]

\* A set_status that schedules a retry whatever the status.
set_status_retries(dom, status, schedule, t) ==
    retry([dom EXCEPT !.status = status], schedule, t)

\* Domain::set_status
set_status(dom, status, schedule, t) ==
    LET d1 == [dom EXCEPT !.status = status]
    IN  IF status.k \in {"TemporaryFailure", "Scheduled"}
        THEN retry(d1, schedule, t)
        ELSE d1

\* Domain::set_rate_limiter_error
set_rate_limiter_error(dom, retry_at) ==
    [dom EXCEPT !.status = TemporaryFailure("RateLimited"), !.due = retry_at]

\* ------------------------------------------------------- Message methods
\* One iteration of the loop of has_pending_delivery, for the domain idx.
SweepDomain(m, idx, t) ==
    LET domain == m.domains[idx]
        perm_rcpts == [r \in DOMAIN m.recipients |->
                         IF m.recipients[r].domain_idx = idx
                         THEN [m.recipients[r] EXCEPT !.status = into_permanent(@)]
                         ELSE m.recipients[r]]
    IN  CASE domain.status.k = "TemporaryFailure" /\ domain.expires <= t ->
               [m EXCEPT !.recipients = perm_rcpts,
                         !.domains[idx].status = into_permanent(domain.status)]
          [] domain.status.k = "Scheduled" /\ domain.expires <= t ->
               [m EXCEPT !.recipients = perm_rcpts,
                         !.domains[idx].status = PermanentFailure("Io")]
          [] OTHER -> m

\* An iteration that counts every domain found Scheduled or TemporaryFailure
\* as pending, expired or not.
SweepPendingFound(m, idx, t) == Pending(m.domains[idx].status)

\* Whether the iteration for the domain idx sets has_pending_delivery.
SweepPending(m, idx, t) ==
    LET domain == m.domains[idx]
    IN  /\ ~(domain.status.k = "TemporaryFailure" /\ domain.expires <= t)
        /\ ~(domain.status.k = "Scheduled" /\ domain.expires <= t)
        /\ ~Terminal(domain.status)

RECURSIVE SweepFrom(_, _, _, _)
SweepFrom(m, idx, t, pending) ==
    IF idx > Len(m.domains)
    THEN [msg |-> m, pending |-> pending]
    ELSE SweepFrom(SweepDomain(m, idx, t), idx + 1, t,
                   pending \/ SweepPending(m, idx, t))

\* A sweep that lets a domain live through the second it expires in.
has_pending_before(m, t) == SweepFrom(m, 1, t - 1, FALSE)

\* Message::has_pending_delivery at time t: the swept message and the result.
has_pending_delivery(m, t) == SweepFrom(m, 1, t, FALSE)

PendingDomains(m) == {d \in DOMAIN m.domains : Pending(m.domains[d].status)}

\* Message::next_delivery_event: earliest retry.due of a pending domain.
next_delivery_event(m) ==
    SetMin({m.domains[d].due : d \in PendingDomains(m)})

\* Message::next_event: the set is empty for None, else holds the due time.
next_event(m) ==
    IF PendingDomains(m) = {} THEN {} ELSE {next_delivery_event(m)}

\* Message::next_event_after(t): empty for None.
next_event_after(m, t) ==
    LET later == {m.domains[d].due : d \in PendingDomains(m)} \cap
                 {x \in 0..(MaxTime + 4) : x > t}
    IN  IF later = {} THEN {} ELSE {SetMin(later)}

\* A next event that is the limiter's retry_at whatever else is due before it.
RetryAtOnly(retry_at, opt) == retry_at

\* std::cmp::min(retry_at, opt.unwrap_or(u64::MAX))
MinOrMax(retry_at, opt) ==
    IF opt = {} THEN retry_at ELSE Min2(retry_at, SetMin(opt))

\* Message::save_changes(prev_event, next_event): one batched write that
\* fails (ok = FALSE) or takes effect as a whole.
save_changes(st, m, prev_event, next, ok) ==
    IF ok
    THEN [msg |-> m, events |-> (st.events \ {prev_event}) \cup {next}]
    ELSE st

\* Message::remove(prev_event)
remove(st, prev_event, ok) ==
    IF ok
    THEN [msg |-> NoMsg, events |-> st.events \ {prev_event}]
    ELSE st

\* Server::try_lock_event: the lease is free, or held past its expiry.
LeaseFree(l, t) == ~l.held \/ l.expires <= t

\* -------------------------------------------------------------- try_deliver
Goto(w, p) == pc' = [pc EXCEPT ![w] = p]
SetLoc(w, r) == loc' = [loc EXCEPT ![w] = r]
SetLog(w, l) == log' = [log EXCEPT ![w] = l]

\* The queue manager spawns try_deliver for an event that is due.
Spawn(w) ==
    /\ pc[w] = "idle"
    /\ attempts < MaxAttempts
    /\ \E e \in store.events :
          /\ e <= now
          /\ SetLoc(w, [Loc0 EXCEPT !.due = e])
    /\ attempts' = attempts + 1
    /\ Goto(w, "lock")
    /\ SetLog(w, NoLog)
    /\ UNCHANGED <<now, lease, store, completions, removes, chan>>

\* A Locked outcome that names the moment the lock times out, without jitter.
LockBusyNoJitter(w) ==
    /\ pc[w] = "lock"
    /\ ~LeaseFree(lease, now)
    /\ SetLoc(w, [loc[w] EXCEPT !.result =
                     [k |-> "Locked", until |-> now + LOCK_EXPIRY]])
    /\ Goto(w, "notify")
    /\ UNCHANGED <<now, lease, store, attempts, log, completions, removes, chan>>

\* The next scan of the queue manager finds the event due and spawns
\* try_deliver for it, however many attempts were made before.
Rescan(w) ==
    /\ pc[w] = "idle"
    /\ \E e \in store.events :
          /\ e <= now
          /\ SetLoc(w, [Loc0 EXCEPT !.due = e])
    /\ Goto(w, "lock")
    /\ SetLog(w, NoLog)
    /\ UNCHANGED <<now, lease, store, attempts, completions, removes, chan>>

\* A Locked outcome that asks for a new attempt within the next seconds.
LockBusyShortWait(w) ==
    /\ pc[w] = "lock"
    /\ ~LeaseFree(lease, now)
    /\ \E j \in JitterLo..JitterHi :
          SetLoc(w, [loc[w] EXCEPT !.result =
                        [k |-> "Locked", until |-> now + (j - JitterLo)]])
    /\ Goto(w, "notify")
    /\ UNCHANGED <<now, lease, store, attempts, log, completions, removes, chan>>

\* try_lock_event succeeds.
LockAcquired(w) ==
    /\ pc[w] = "lock"
    /\ LeaseFree(lease, now)
    /\ lease' = [held |-> TRUE, expires |-> now + LOCK_EXPIRY]
    /\ SetLoc(w, [loc[w] EXCEPT !.locked = TRUE])
    /\ Goto(w, "read")
    /\ UNCHANGED <<now, store, attempts, log, completions, removes, chan>>

\* try_lock_event fails: Locked { until }.
LockBusy(w) ==
    /\ pc[w] = "lock"
    /\ ~LeaseFree(lease, now)
    /\ \E j \in JitterLo..JitterHi :
          SetLoc(w, [loc[w] EXCEPT !.result =
                        [k |-> "Locked", until |-> now + LOCK_EXPIRY + j]])
    /\ Goto(w, "notify")
    /\ UNCHANGED <<now, lease, store, attempts, log, completions, removes, chan>>

\* read_message returns the message.
ReadMessage(w) ==
    /\ pc[w] = "read"
    /\ store.msg # NoMsg
    /\ SetLoc(w, [loc[w] EXCEPT
                     !.msg = store.msg,
                     !.span = TRUE,
                     !.expired0 = \A d \in DOMAIN store.msg.domains :
                                     store.msg.domains[d].expires <= now])
    /\ Goto(w, "task")
    /\ UNCHANGED <<now, lease, store, attempts, log, completions, removes, chan>>

\* A missing message that ends the task with the lease still held.
MissingMessageNoUnlock(w) ==
    /\ pc[w] = "read"
    /\ store.msg = NoMsg
    /\ \E ok \in BOOLEAN :
          /\ store' = IF ok THEN [store EXCEPT !.events = @ \ {loc[w].due}] ELSE store
          /\ SetLoc(w, [loc[w] EXCEPT !.result = [k |-> "Completed", until |-> 0],
                                      !.op = "clear", !.op_ok = ok])
    /\ Goto(w, "notify")
    /\ UNCHANGED <<now, lease, attempts, log, completions, removes, chan>>

\* A missing message whose task gives up when the clear of the event fails.
MissingMessageGivesUp(w) ==
    /\ pc[w] = "read"
    /\ store.msg = NoMsg
    /\ \E ok \in BOOLEAN :
          /\ store' = IF ok THEN [store EXCEPT !.events = @ \ {loc[w].due}] ELSE store
          /\ SetLoc(w, [loc[w] EXCEPT
                           !.result = [k |-> IF ok THEN "Completed" ELSE "Deferred",
                                       until |-> 0],
                           !.op = "clear", !.op_ok = ok])
          /\ Goto(w, IF ok THEN "unlock" ELSE "notify")
    /\ UNCHANGED <<now, lease, attempts, log, completions, removes, chan>>

\* read_message returns None: delete the queue event (the write may fail).
MissingMessage(w) ==
    /\ pc[w] = "read"
    /\ store.msg = NoMsg
    /\ \E ok \in BOOLEAN :
          /\ store' = IF ok THEN [store EXCEPT !.events = @ \ {loc[w].due}] ELSE store
          /\ SetLoc(w, [loc[w] EXCEPT !.result = [k |-> "Completed", until |-> 0],
                                      !.op = "clear", !.op_ok = ok])
    /\ Goto(w, "unlock")
    /\ UNCHANGED <<now, lease, attempts, log, completions, removes, chan>>

\* unlock_event
UnlockEvent(w) ==
    /\ pc[w] = "unlock"
    /\ lease' = [held |-> FALSE, expires |-> 0]
    /\ SetLoc(w, [loc[w] EXCEPT !.unlocks = Incr(@)])
    /\ Goto(w, "notify")
    /\ UNCHANGED <<now, store, attempts, log, completions, removes, chan>>

\* The channel has no room: send(..).await of a bounded channel waits.
Full(ch) == ~ch.closed /\ ch.len >= ChanCap

\* Sender::send resolved: Err when the receiver is gone (nothing is queued,
\* ThreadError is logged), else the event is queued.
send(ch) == IF ch.closed THEN ch ELSE [ch EXCEPT !.len = @ + 1]

\* A task that sends its WorkerDone event twice.
NotifyTwice(w) ==
    /\ pc[w] = "notify"
    /\ ~Full(chan)
    /\ chan' = send(send(chan))
    /\ Goto(w, "idle")
    /\ SetLoc(w, Loc0)
    /\ SetLog(w, NoLog)
    /\ UNCHANGED <<now, lease, store, attempts, completions, removes>>

\* queue_tx.send(WorkerDone { queue_id, status }).await; the task ends.
Notify(w) ==
    /\ pc[w] = "notify"
    /\ ~Full(chan)
    /\ chan' = send(chan)
    /\ Goto(w, "idle")
    /\ SetLoc(w, Loc0)
    /\ SetLog(w, NoLog)
    /\ UNCHANGED <<now, lease, store, attempts, completions, removes>>

\* The queue manager takes a WorkerDone event off the channel.
Receive ==
    /\ chan.len > 0
    /\ chan' = [chan EXCEPT !.len = @ - 1]
    /\ UNCHANGED <<now, lease, store, attempts, pc, loc, log, completions, removes>>

\* The queue manager goes away: the receiver is dropped with what it held.
Close ==
    /\ ~chan.closed
    /\ chan' = [len |-> 0, closed |-> TRUE]
    /\ UNCHANGED <<now, lease, store, attempts, pc, loc, log, completions, removes>>

\* The clock advances.
Tick ==
    /\ now < MaxTime
    /\ now' = now + 1
    /\ UNCHANGED <<lease, store, attempts, pc, loc, log, completions, removes, chan>>

\* Time passes between two attempts.
Pause ==
    /\ \A w \in Workers : pc[w] = "idle"
    /\ chan.len = 0
    /\ Tick

\* ------------------------------------------------- deliver_task: early exits
Deferred(l, ok) ==
    [l EXCEPT !.result = [k |-> "Deferred", until |-> 0], !.op = "save", !.op_ok = ok]

\* A removal of the message that is reported as Deferred.
DoneDeferred(l, ok) ==
    [l EXCEPT !.result = [k |-> "Deferred", until |-> 0], !.op = "remove", !.op_ok = ok]

Done(l, ok) ==
    [l EXCEPT !.result = [k |-> "Completed", until |-> 0], !.op = "remove", !.op_ok = ok]

\* No domain is pending after the sweep: remove the message.
TaskExpired(w) ==
    /\ pc[w] = "task"
    /\ LET sw == has_pending_delivery(loc[w].msg, now)
       IN  /\ ~sw.pending
           /\ \E ok \in BOOLEAN :
                 /\ store' = remove(store, loc[w].due, ok)
                 /\ SetLoc(w, Done([loc[w] EXCEPT !.msg = sw.msg], ok))
    /\ removes' = Incr(removes)
    /\ Goto(w, "unlock")
    /\ UNCHANGED <<now, lease, attempts, log, completions, chan>>

\* A re-queue that leaves the event at the due time it was taken at.
TaskNotDueSameEvent(w) ==
    /\ pc[w] = "task"
    /\ LET sw == has_pending_delivery(loc[w].msg, now)
       IN  /\ sw.pending
           /\ next_delivery_event(sw.msg) > now
           /\ \E ok \in BOOLEAN :
                 /\ store' = save_changes(store, sw.msg, loc[w].due, loc[w].due, ok)
                 /\ SetLoc(w, Deferred([loc[w] EXCEPT !.msg = sw.msg], ok))
    /\ Goto(w, "unlock")
    /\ UNCHANGED <<now, lease, attempts, log, completions, removes, chan>>

\* Pending, but the next delivery event is later than now: re-queue.
TaskNotDue(w) ==
    /\ pc[w] = "task"
    /\ LET sw == has_pending_delivery(loc[w].msg, now)
       IN  /\ sw.pending
           /\ next_delivery_event(sw.msg) > now
           /\ \E ok \in BOOLEAN :
                 /\ store' = save_changes(store, sw.msg, loc[w].due,
                                          next_delivery_event(sw.msg), ok)
                 /\ SetLoc(w, Deferred([loc[w] EXCEPT !.msg = sw.msg], ok))
    /\ Goto(w, "unlock")
    /\ UNCHANGED <<now, lease, attempts, log, completions, removes, chan>>

\* Pending and due: go on to the sender throttle.
TaskDue(w) ==
    /\ pc[w] = "task"
    /\ LET sw == has_pending_delivery(loc[w].msg, now)
       IN  /\ sw.pending
           /\ ~(next_delivery_event(sw.msg) > now)
           /\ SetLoc(w, [loc[w] EXCEPT !.msg = sw.msg])
    /\ Goto(w, "throttle")
    /\ UNCHANGED <<now, lease, store, attempts, log, completions, removes, chan>>

\* The retry_at a rate limiter may answer at time t.
RetryAts(t) == {t + 1, t + 2}

\* A sender limiter denies: re-queue, return Deferred.
SenderDenied(w) ==
    /\ pc[w] = "throttle"
    /\ \E retry_at \in RetryAts(now), ok \in BOOLEAN :
          LET next == MinOrMax(retry_at, next_event_after(loc[w].msg, now))
          IN  /\ store' = save_changes(store, loc[w].msg, loc[w].due, next, ok)
              /\ SetLoc(w, Deferred(loc[w], ok))
    /\ Goto(w, "unlock")
    /\ UNCHANGED <<now, lease, attempts, log, completions, removes, chan>>

\* No sender limiter denies: take the recipients, enter the domain loop.
SenderAllowed(w) ==
    /\ pc[w] = "throttle"
    /\ SetLoc(w, [loc[w] EXCEPT !.rcpts = loc[w].msg.recipients,
                                !.msg.recipients = <<>>,
                                !.didx = 1])
    /\ Goto(w, "domain")
    /\ UNCHANGED <<now, lease, store, attempts, log, completions, removes, chan>>

\* ----------------------------------------------------- deliver_task: domains
\* A check of the due time alone.
DueOnly(dom, t) == dom.due <= t

\* "Only process domains due for delivery"
Eligible(dom, t) == Pending(dom.status) /\ dom.due <= t

CurDomain(w) == loc[w].msg.domains[loc[w].didx]

NumDomains(w) == Len(loc[w].msg.domains)

InDomainLoop(w) == pc[w] = "domain" /\ loc[w].didx <= NumDomains(w)

RcptsOf(rcpts, idx) == {r \in DOMAIN rcpts : rcpts[r].domain_idx = idx}

\* Message::deliver / Message::deliver_local over the recipients of the domain
\* idx: the possible (recipients, result) pairs.  Either the session fails as a
\* whole (MAIL FROM, DATA or I/O) and no recipient changes, or every pending
\* recipient gets the status its RCPT/DATA replies give it; the result is
\* Completed when no recipient of the domain is left pending, else Scheduled.
Deliveries(rcpts, idx) ==
    LET mine == {r \in RcptsOf(rcpts, idx) : Pending(rcpts[r].status)}
        Apply(out) == [r \in DOMAIN rcpts |->
                          IF r \in mine
                          THEN [rcpts[r] EXCEPT !.status = out[r]]
                          ELSE rcpts[r]]
    IN  {[rcpts |-> rcpts, result |-> st] :
            st \in {TemporaryFailure("Smtp"), PermanentFailure("Smtp")}}
        \cup
        {[rcpts  |-> Apply(out),
          result |-> IF \A r \in RcptsOf(rcpts, idx) : Terminal(Apply(out)[r].status)
                     THEN Completed ELSE Scheduled] :
            out \in [mine -> {Completed, TemporaryFailure("Smtp"),
                              PermanentFailure("Smtp")}]}

\* Transitions to Completed between two recipient lists.
Count(old, new) ==
    [r \in DOMAIN old |->
        IF old[r].status.k # "Completed" /\ new[r].status.k = "Completed"
        THEN Incr(completions[r]) ELSE completions[r]]

\* The step of worker w for its current domain did evs (in this order).
SeenTags == {"ip_lookup", "connect", "deliver_tls", "deliver_plain", "deliver_local"}

\* What the attempt remembers of a step: the things of SeenTags it did, and
\* the host an enforced MTA-STS policy did not authorise.
Kept(ev) == ev.e \in SeenTags \/ (ev.e = "not_authorized" /\ ev.strict)

Logged(w, evs) ==
    SetLog(w, [dom  |-> loc[w].didx,
               ev   |-> evs,
               seen |-> log[w].seen \cup
                        {<<loc[w].didx, evs[n].h, evs[n].e>> :
                            n \in {k \in DOMAIN evs : Kept(evs[k])}}])

\* continue 'next_domain, with the domain and the recipients as they now are.
EndDomain(w, dom, rcpts, events) ==
    /\ SetLoc(w, [loc[w] EXCEPT !.msg.domains[loc[w].didx] = dom,
                                !.rcpts = rcpts,
                                !.didx = @ + 1,
                                !.hidx = 0,
                                !.iidx = 0,
                                !.d = DomLocals0])
    /\ Logged(w, events)
    /\ completions' = Count(loc[w].rcpts, rcpts)
    /\ Goto(w, IF loc[w].didx + 1 > NumDomains(w) THEN "finish" ELSE "domain")

\* The domain is not Scheduled/TemporaryFailure with retry.due <= now: continue.
DomainSkip(w) ==
    /\ InDomainLoop(w)
    /\ ~Eligible(CurDomain(w), now)
    /\ EndDomain(w, CurDomain(w), loc[w].rcpts, <<>>)
    /\ UNCHANGED <<now, lease, store, attempts, removes, chan>>

\* A denial handled as a delivery failure to retry at retry_at.
RcptThrottleFailure(dom, retry_at, t) ==
    set_status(dom, TemporaryFailure("RateLimited"), <<retry_at - t>>, t)

\* What a denial of a recipient-domain limiter does to the domain.
RcptThrottleError(dom, retry_at, t) ==
    set_rate_limiter_error(dom, retry_at)

\* A recipient-domain limiter denies.
RcptThrottled(w) ==
    /\ InDomainLoop(w)
    /\ Eligible(CurDomain(w), now)
    /\ \E retry_at \in RetryAts(now) :
          EndDomain(w, RcptThrottleError(CurDomain(w), retry_at, now),
                    loc[w].rcpts, <<Ev("rcpt_throttle", 0, 0, FALSE)>>)
    /\ UNCHANGED <<now, lease, store, attempts, removes, chan>>

\* The next hop is a relay host of protocol Http: deliver_local, set_status.
LocalDelivery(w) ==
    /\ InDomainLoop(w)
    /\ Eligible(CurDomain(w), now)
    /\ \E dl \in Deliveries(loc[w].rcpts, loc[w].didx), schedule \in Schedules :
          EndDomain(w, set_status(CurDomain(w), dl.result, schedule, now),
                    dl.rcpts, <<Ev("deliver_local", 0, 0, FALSE)>>)
    /\ UNCHANGED <<now, lease, store, attempts, removes, chan>>

\* ------------------------------------------- deliver_task: remote delivery
\* RequireOptional, and the predicates of TlsStrategy.
RequireOptional == {"Require", "Optional", "Disable"}
try_mta_sts(mta_sts)         == mta_sts # "Disable"
is_mta_sts_required(mta_sts) == mta_sts = "Require"
try_dane(dane)               == dane # "Disable"
is_dane_required(dane)       == dane = "Require"
try_start_tls(tls)           == tls # "Disable"
is_tls_required(tls)         == tls = "Require"

At(w, e) == Ev(e, loc[w].hidx, loc[w].iidx, FALSE)

\* Status::from(mail_auth::Error)
DnsStatus(err) ==
    IF err = "NotFound" THEN PermanentFailure("Dns") ELSE TemporaryFailure("Dns")

\* A lookup of the TLS-RPT record that reports are not exempt from.
TlsRptLookupForReports(interval, is_smtp, from_report) ==
    interval # "Never" /\ is_smtp

\* "Obtain TLS reporting": whether the TLS-RPT record of the domain is looked
\* up, interval being what report.tls.send evaluates to.
TlsRptLookup(interval, is_smtp, from_report) ==
    interval # "Never" /\ is_smtp /\ ~from_report

\* Next hop is a relay host of another protocol than Http, or none: is_smtp,
\* remote_hosts and the TLS-RPT record.
RemoteSetup(w) ==
    /\ InDomainLoop(w)
    /\ Eligible(CurDomain(w), now)
    /\ \E hop \in {"mx", "relay_smtp", "relay_other"},
          interval \in {"Never", "Daily"}, txt \in {"Ok", "NotFound", "Error"} :
          LET is_smtp == hop # "relay_other"
              lookup  == TlsRptLookup(interval, is_smtp, loc[w].msg.flags.from_report)
          IN  /\ lookup \/ txt = "Ok"
              /\ SetLoc(w, [loc[w] EXCEPT !.d =
                    [DomLocals0 EXCEPT !.hop = hop,
                                       !.tls_report = lookup /\ txt = "Ok"]])
              /\ Logged(w, IF lookup THEN <<At(w, "tlsrpt_lookup")>>
                            ELSE IF interval = "Never" THEN <<At(w, "tls_send_never")>>
                            ELSE <<>>)
    /\ Goto(w, "mta_sts")
    /\ UNCHANGED <<now, lease, store, attempts, completions, removes, chan>>

is_smtp(w) == loc[w].d.hop # "relay_other"

\* Status::from(mta_sts::Error)
MtaStsStatus(err) ==
    CASE err = "NotFound" -> {PermanentFailure("MtaSts")}
      [] err = "Dns"      -> {TemporaryFailure("MtaSts")}
      [] err = "Http"     -> {TemporaryFailure("MtaSts"), PermanentFailure("MtaSts")}
      [] OTHER            -> {PermanentFailure("MtaSts")}

\* A report of every error when MTA-STS is required.
MtaStsReportedWhenStrict(w, strict, err) ==
    /\ loc[w].d.tls_report
    /\ strict \/ err \notin {"NotFound", "Dns"}

\* "Report MTA-STS error": whether a TLS-RPT event is scheduled for the error.
MtaStsReported(w, strict, err) ==
    /\ loc[w].d.tls_report
    /\ CASE err = "NotFound" -> strict
         [] err = "Dns"      -> FALSE
         [] OTHER            -> TRUE

\* The trace event of the error (PolicyNotFound, PolicyFetchError for a DNS
\* or an HTTP error, InvalidPolicy); it carries Strict = is_mta_sts_required.
MtaStsErrorEvent(err) ==
    CASE err = "NotFound" -> "policy_not_found"
      [] err = "Dns"      -> "policy_dns_error"
      [] err = "Http"     -> "policy_http_error"
      [] OTHER            -> "policy_invalid"

MtaStsErrorLog(w, strict, err) ==
    <<At(w, "mta_sts_lookup")>> \o
    (IF MtaStsReported(w, strict, err) THEN <<At(w, "report_failure")>> ELSE <<>>) \o
    <<Ev(MtaStsErrorEvent(err), loc[w].hidx, loc[w].iidx, strict)>>

MtaStsErrors == {"NotFound", "Dns", "Http", "InvalidPolicy"}

\* MTA-STS is not tried, or the policy is fetched, or the fetch fails and
\* MTA-STS is not required.
MtaStsLookup(w) ==
    /\ pc[w] = "mta_sts"
    /\ \E mta_sts \in RequireOptional :
          \/ /\ ~(try_mta_sts(mta_sts) /\ is_smtp(w))
             /\ mta_sts = "Disable" \/ ~is_smtp(w)
             /\ Logged(w, <<>>)
             /\ UNCHANGED loc
          \/ /\ try_mta_sts(mta_sts) /\ is_smtp(w)
             /\ \E policy \in {"enforce", "testing"} :
                   SetLoc(w, [loc[w] EXCEPT !.d.policy = policy])
             /\ Logged(w, <<At(w, "mta_sts_lookup")>>)
          \/ /\ try_mta_sts(mta_sts) /\ is_smtp(w)
             /\ ~is_mta_sts_required(mta_sts)
             /\ \E err \in MtaStsErrors : Logged(w, MtaStsErrorLog(w, FALSE, err))
             /\ UNCHANGED loc
    /\ Goto(w, "mx")
    /\ UNCHANGED <<now, lease, store, attempts, completions, removes, chan>>

\* The fetch fails and MTA-STS is required: set_status(err), next domain.
MtaStsFailed(w) ==
    /\ pc[w] = "mta_sts"
    /\ is_smtp(w)
    /\ \E err \in MtaStsErrors, schedule \in Schedules :
          \E st \in MtaStsStatus(err) :
             EndDomain(w, set_status(CurDomain(w), st, schedule, now), loc[w].rcpts,
                       MtaStsErrorLog(w, TRUE, err))
    /\ UNCHANGED <<now, lease, store, attempts, removes, chan>>

\* is_smtp && remote_hosts.is_empty()
NeedsMx(w) == loc[w].d.hop = "mx"

\* An MX lookup that takes DnsRecordNotFound for a failure of the domain.
MxLookupNotFoundFails(w) ==
    /\ pc[w] = "mx"
    /\ \/ /\ ~NeedsMx(w)
          /\ Logged(w, <<>>)
          /\ SetLoc(w, [loc[w] EXCEPT !.hidx = 1])
          /\ Goto(w, "host")
          /\ UNCHANGED completions
       \/ /\ NeedsMx(w)
          /\ Logged(w, <<At(w, "mx_lookup")>>)
          /\ SetLoc(w, [loc[w] EXCEPT !.hidx = 1])
          /\ Goto(w, "host")
          /\ UNCHANGED completions
       \/ /\ NeedsMx(w)
          /\ \E schedule \in Schedules :
                EndDomain(w, set_status(CurDomain(w), DnsStatus("NotFound"), schedule, now),
                          loc[w].rcpts, <<At(w, "mx_lookup"), At(w, "mx_not_found")>>)
    /\ UNCHANGED <<now, lease, store, attempts, removes, chan>>

\* The remote hosts are known: a relay host, the MX records cut to max_mx, or
\* the implicit MX when no MX record is found.
MxLookup(w) ==
    /\ pc[w] = "mx"
    /\ \/ /\ ~NeedsMx(w)
          /\ Logged(w, <<>>)
          /\ SetLoc(w, [loc[w] EXCEPT !.hidx = 1])
       \/ /\ NeedsMx(w)
          /\ Logged(w, <<At(w, "mx_lookup")>>)
          /\ SetLoc(w, [loc[w] EXCEPT !.hidx = 1])
       \/ /\ NeedsMx(w)
          /\ Logged(w, <<At(w, "mx_lookup"), At(w, "mx_not_found")>>)
          /\ SetLoc(w, [loc[w] EXCEPT !.hidx = 1, !.d.hop = "implicit_mx"])
    /\ Goto(w, "host")
    /\ UNCHANGED <<now, lease, store, attempts, completions, removes, chan>>

\* The MX lookup fails with another error than DnsRecordNotFound.
MxFailed(w) ==
    /\ pc[w] = "mx"
    /\ NeedsMx(w)
    /\ \E schedule \in Schedules :
          EndDomain(w, set_status(CurDomain(w), DnsStatus("Error"), schedule, now),
                    loc[w].rcpts, <<At(w, "mx_lookup"), At(w, "mx_error")>>)
    /\ UNCHANGED <<now, lease, store, attempts, removes, chan>>

\* A null MX taken for a failure that may pass.
NullMxTemporary == TemporaryFailure("NullMx")

\* The status of a domain with a null MX.
NullMxStatus == PermanentFailure("NullMx")

\* to_remote_hosts returns None: null MX.
NullMx(w) ==
    /\ pc[w] = "mx"
    /\ NeedsMx(w)
    /\ \E schedule \in Schedules :
          EndDomain(w, set_status(CurDomain(w), NullMxStatus, schedule, now),
                    loc[w].rcpts, <<At(w, "mx_lookup"), At(w, "null_mx")>>)
    /\ UNCHANGED <<now, lease, store, attempts, removes, chan>>

\* ------------------------------------------------------------- 'next_host
\* remote_hosts holds one host (a relay host, the implicit MX) or up to
\* MaxHosts hosts (MX records, of which to_remote_hosts may keep none); its
\* length shows when the loop ends.
HostLimit(w) == IF loc[w].d.hop = "mx" THEN MaxHosts ELSE 1

InHostLoop(w) == pc[w] = "host" /\ loc[w].hidx <= HostLimit(w)

\* A continue 'next_host that keeps the failure of the first host that failed.
NextHostFirstFailure(w, st, evs) ==
    /\ SetLoc(w, [loc[w] EXCEPT !.hidx = @ + 1,
                                !.iidx = 0,
                                !.d.last_status =
                                    IF @ = Scheduled THEN st ELSE @,
                                !.d.dane_policy = FALSE,
                                !.d.ips = 0])
    /\ Logged(w, evs)
    /\ Goto(w, "host")

\* continue 'next_host with last_status = st.
NextHost(w, st, evs) ==
    /\ SetLoc(w, [loc[w] EXCEPT !.hidx = @ + 1,
                                !.iidx = 0,
                                !.d.last_status = st,
                                !.d.dane_policy = FALSE,
                                !.d.ips = 0])
    /\ Logged(w, evs)
    /\ Goto(w, "host")

\* The answers mta_sts_policy.verify(mx) may give: always TRUE without policy.
Verdicts(w) == IF loc[w].d.policy = "none" THEN {TRUE} ELSE BOOLEAN

\* "Validate MTA-STS": the events of the validation; the trace event of a
\* host that is not authorised carries Strict = mta_sts_policy.enforce().
VerifyLog(w, authorized) ==
    IF loc[w].d.policy = "none"
    THEN <<>>
    ELSE IF authorized
         THEN <<At(w, "authorized")>>
         ELSE <<Ev("not_authorized", loc[w].hidx, loc[w].iidx,
                   loc[w].d.policy = "enforce")>> \o
              (IF loc[w].d.tls_report THEN <<At(w, "report_failure")>> ELSE <<>>)

\* A validation that only reports.
SkipNever(policy) == FALSE

\* Whether a host that fails the validation is skipped.
SkipNotAuthorized(policy) == policy = "enforce"

\* The host is not authorised by the policy and is skipped.
HostNotAuthorized(w) ==
    /\ InHostLoop(w)
    /\ loc[w].d.policy # "none"
    /\ SkipNotAuthorized(loc[w].d.policy)
    /\ NextHost(w, PermanentFailure("MtaSts"), VerifyLog(w, FALSE))
    /\ UNCHANGED <<now, lease, store, attempts, completions, removes, chan>>

\* The host passes the MTA-STS validation (authorised, or no skip).
HostPasses(w, authorized) ==
    /\ InHostLoop(w)
    /\ authorized \in Verdicts(w)
    /\ authorized \/ ~SkipNotAuthorized(loc[w].d.policy)

\* resolve_host fails.
HostUnresolved(w) ==
    \E authorized \in BOOLEAN, st \in {DnsStatus("NotFound"), DnsStatus("Error")} :
       /\ HostPasses(w, authorized)
       /\ NextHost(w, st, VerifyLog(w, authorized) \o
                          <<At(w, "ip_lookup"), At(w, "ip_lookup_failed")>>)
       /\ UNCHANGED <<now, lease, store, attempts, completions, removes, chan>>

\* The answers of tlsa_lookup: a record set with or without end entities, no
\* DNSSEC signature (Ok(None)), DnsRecordNotFound, another error.
TlsaAnswers == {"EndEntities", "NoEndEntities", "NotSigned", "NotFound", "Error"}

\* "Lookup DANE policy": the events when the lookup gives tlsa; the trace
\* event of the answer carries Strict = is_dane_required.
DaneLog(w, strict, tlsa) ==
    <<At(w, "tlsa_lookup"), Ev(tlsa, loc[w].hidx, loc[w].iidx, strict)>> \o
    (IF /\ loc[w].d.tls_report
        /\ \/ tlsa = "NoEndEntities"
           \/ strict /\ tlsa \in {"NotSigned", "NotFound"}
     THEN <<At(w, "report_failure")>> ELSE <<>>)

\* last_status when DANE is required and the lookup gives no usable policy.
DaneStatus(tlsa) ==
    IF tlsa = "Error" THEN DnsStatus("Error") ELSE PermanentFailure("Dane")

\* A skip of the hosts that have no TLSA record set at all.
DaneSkipsNoRecords(strict, tlsa) ==
    strict /\ tlsa \in {"NotSigned", "NotFound", "Error"}

\* Whether the host is skipped after the TLSA lookup.
DaneSkips(strict, tlsa) == strict /\ tlsa # "EndEntities"

\* The TLSA lookup gives no usable policy and the host is skipped.
HostDaneFailed(w) ==
    \E authorized \in BOOLEAN, dane \in RequireOptional, tlsa \in TlsaAnswers :
       /\ HostPasses(w, authorized)
       /\ try_dane(dane) /\ is_smtp(w)
       /\ DaneSkips(is_dane_required(dane), tlsa)
       /\ NextHost(w, DaneStatus(tlsa),
                   VerifyLog(w, authorized) \o <<At(w, "ip_lookup")>> \o
                   DaneLog(w, is_dane_required(dane), tlsa))
       /\ UNCHANGED <<now, lease, store, attempts, completions, removes, chan>>

\* The host is resolved and the DANE lookup lets the worker go on.
HostReady(w) ==
    \E authorized \in BOOLEAN, dane \in RequireOptional, tlsa \in TlsaAnswers,
       ips \in 1..MaxIps :
       LET tried == try_dane(dane) /\ is_smtp(w)
       IN  /\ HostPasses(w, authorized)
           /\ tried \/ (tlsa = "Error" /\ dane = "Disable")
           /\ tried => ~DaneSkips(is_dane_required(dane), tlsa)
           /\ SetLoc(w, [loc[w] EXCEPT
                 !.iidx = 1,
                 !.d.ips = ips,
                 !.d.dane_policy = tried /\ tlsa = "EndEntities"])
           /\ Logged(w, VerifyLog(w, authorized) \o <<At(w, "ip_lookup")>> \o
                        (IF tried THEN DaneLog(w, is_dane_required(dane), tlsa)
                         ELSE <<>>))
           /\ Goto(w, "ip")
           /\ UNCHANGED <<now, lease, store, attempts, completions, removes, chan>>

\* No host is left: set_status(last_status).
AfterHosts(w) ==
    /\ pc[w] = "host"
    /\ loc[w].hidx > 1 \/ loc[w].d.hop = "mx"
    /\ \E schedule \in Schedules :
          EndDomain(w, set_status(CurDomain(w), loc[w].d.last_status, schedule, now),
                    loc[w].rcpts, <<>>)
    /\ UNCHANGED <<now, lease, store, attempts, removes, chan>>

\* --------------------------------------------------------------- 'next_ip
\* remote_ips holds between one and MaxIps addresses.
InIpLoop(w) == pc[w] = "ip" /\ loc[w].iidx <= loc[w].d.ips

\* No IP of the host is left: next host, last_status as it is.
IpsExhausted(w) ==
    /\ pc[w] = "ip"
    /\ loc[w].iidx > loc[w].d.ips
    /\ NextHost(w, loc[w].d.last_status, <<>>)
    /\ UNCHANGED <<now, lease, store, attempts, completions, removes, chan>>

\* What a denial of a remote-IP limiter does to the domain.
RemoteThrottleError(dom, retry_at, t) ==
    set_rate_limiter_error(dom, retry_at)

\* A denial of a remote-IP limiter that goes on with the next IP of the host.
RemoteThrottledNextIp(w) ==
    /\ InIpLoop(w)
    /\ \E retry_at \in RetryAts(now) :
          SetLoc(w, [loc[w] EXCEPT
             !.msg.domains[loc[w].didx] = set_rate_limiter_error(CurDomain(w), retry_at),
             !.iidx = @ + 1])
    /\ Logged(w, <<At(w, "remote_throttle")>>)
    /\ UNCHANGED <<now, lease, store, attempts, pc, completions, removes, chan>>

\* A remote-IP limiter denies: next domain.
RemoteThrottled(w) ==
    /\ InIpLoop(w)
    /\ \E retry_at \in RetryAts(now) :
          EndDomain(w, RemoteThrottleError(CurDomain(w), retry_at, now),
                    loc[w].rcpts, <<At(w, "remote_throttle")>>)
    /\ UNCHANGED <<now, lease, store, attempts, removes, chan>>

\* Status::from_smtp_error and the like: a failure of the kind e.
Failures(e) == {TemporaryFailure(e), PermanentFailure(e)}

\* The position the 'next_ip loop continues at after a failed connect.
AfterConnectError(iidx) == iidx + 1

\* SmtpClient::connect fails: next IP.
ConnectFailed(w) ==
    /\ InIpLoop(w)
    /\ \E st \in Failures("Smtp") :
          SetLoc(w, [loc[w] EXCEPT !.iidx = AfterConnectError(@),
                                   !.d.last_status = st])
    /\ Logged(w, <<At(w, "connect"), At(w, "connect_error")>>)
    /\ UNCHANGED <<now, lease, store, attempts, pc, completions, removes, chan>>

\* SmtpClient::connect succeeds.
Connected(w) ==
    /\ InIpLoop(w)
    /\ Logged(w, <<At(w, "connect")>>)
    /\ Goto(w, "session")
    /\ UNCHANGED <<now, lease, store, attempts, loc, completions, removes, chan>>

\* A strictness that counts an MTA-STS policy only when it is enforced.
is_strict_tls_enforced(w, tls) ==
    \/ is_tls_required(tls)
    \/ loc[w].msg.flags.requiretls
    \/ loc[w].d.policy = "enforce"
    \/ loc[w].d.dane_policy

\* "Prepare TLS connector"
is_strict_tls(w, tls) ==
    \/ is_tls_required(tls)
    \/ loc[w].msg.flags.requiretls
    \/ loc[w].d.policy # "none"
    \/ loc[w].d.dane_policy

\* The steps of a session at which TLS is not to be had.
TlsFailed == {"starttls_unavailable", "starttls_error", "tls_error"}

\* The steps of a session at which the SMTP dialogue fails before STARTTLS.
SmtpFailed == {"greeting_failed", "ehlo_rejected"}

\* The steps es of a session under the strategy tls.
Steps(w, tls, es) ==
    [n \in DOMAIN es |->
        [Ev(es[n], loc[w].hidx, loc[w].iidx, is_strict_tls(w, tls)) EXCEPT
            !.tls = IF es[n] \in TlsFailed THEN tls ELSE @,
            !.ips = IF es[n] \in SmtpFailed THEN loc[w].d.ips ELSE @]]

Report(w, e) == IF loc[w].d.tls_report THEN <<e>> ELSE <<>>

\* The kind of status from_tls_error makes of the error of a handshake.
TlsErrorKind(st) ==
    IF st.k = "PermanentFailure" THEN "tls_permanent" ELSE "tls_temporary"

\* A handshake error kept as from_tls_error gives it, strict or not.
StartTlsErrorUnchanged(strict, st) == st

\* The status a failed STARTTLS handshake leaves in last_status.
StartTlsErrorStatus(strict, st) == IF strict THEN st ELSE into_temporary(st)

\* An implicit TLS error made temporary when TLS is not strict.
ImplicitTlsErrorSoftened(strict, st) == IF strict THEN st ELSE into_temporary(st)

\* The status a failed implicit TLS handshake leaves in last_status.
ImplicitTlsErrorStatus(strict, st) == st

\* A verification of the certificates whose failure is only reported.
DaneVerifyReportOnly(verified) == "deliver"

\* "Verify DANE": what dane_policy.verify leads to after STARTTLS, to "skip"
\* the host when it fails or to go on to "deliver".
DaneVerify(verified) == IF verified THEN "deliver" ELSE "skip"

\* What an unavailable STARTTLS leads to: "skip" the host or "deliver".
StartTlsUnavailable(strict) == IF strict THEN "skip" ELSE "deliver"

\* What tls = Disable leads to ("TLS has been disabled").
StartTlsDisabled(strict) == "deliver"

\* remote_host.implicit_tls(): only a relay host may ask for it.
ImplicitTls(w) == IF loc[w].d.hop \in {"relay_smtp", "relay_other"} THEN BOOLEAN ELSE {FALSE}

\* The sessions over a plain connection (STARTTLS) that end in
\* continue 'next_host: last_status and the steps.
StartTlsFailures(w, tls) ==
    LET strict == is_strict_tls(w, tls)
        F(S, es) == {[status |-> st, ev |-> Steps(w, tls, es)] : st \in S}
    IN  F(Failures("Smtp"), <<"greeting_failed">>)
        \cup
        F(Failures("Smtp"), <<"greeting", "ehlo_rejected">>)
        \cup
        (IF try_start_tls(tls) /\ loc[w].d.dane_policy /\ DaneVerify(FALSE) = "skip"
         THEN F(Failures("Dane"),
                <<"greeting", "ehlo", "starttls", "dane_failed">> \o
                Report(w, "report_failure"))
         ELSE {})
        \cup
        (IF try_start_tls(tls) /\ StartTlsUnavailable(strict) = "skip"
         THEN F(Failures("Tls"),
                <<"greeting", "ehlo", "starttls_unavailable">> \o
                Report(w, "report_failure"))
         ELSE {})
        \cup
        (IF try_start_tls(tls)
         THEN UNION {F({StartTlsErrorStatus(strict, st)},
                       <<"greeting", "ehlo", "starttls_error", TlsErrorKind(st)>>)
                     \cup
                     F({StartTlsErrorStatus(strict, st)},
                       <<"greeting", "ehlo", "starttls_error", TlsErrorKind(st)>> \o
                       Report(w, "report_failure")) :
                        st \in Failures("Tls")}
         ELSE {})

\* The sessions over implicit TLS that end in continue 'next_host.
ImplicitTlsFailures(w, tls) ==
    LET strict == is_strict_tls(w, tls)
        F(S, es) == {[status |-> st, ev |-> Steps(w, tls, es)] : st \in S}
    IN  UNION {F({ImplicitTlsErrorStatus(strict, st)}, <<"tls_error", TlsErrorKind(st)>>) :
                  st \in Failures("Tls")}
        \cup
        F(Failures("Smtp"), <<"tls", "greeting_failed">>)

\* Sessions that talk before the greeting is read: EHLO first on a plain
\* connection, the greeting before the upgrade on an implicit-TLS one.
SessionDeliveriesEarly(w, tls, implicit) ==
    IF implicit
    THEN {Steps(w, tls, <<"greeting", "tls", "deliver_tls">>)}
    ELSE {Steps(w, tls, <<"ehlo", "greeting", "starttls_disabled", "deliver_plain">>)}

\* The sessions that reach message.deliver: the steps up to it.
SessionDeliveries(w, tls, implicit) ==
    LET strict == is_strict_tls(w, tls)
    IN  IF implicit
        THEN {Steps(w, tls, <<"tls", "greeting", "deliver_tls">>)}
        ELSE IF try_start_tls(tls)
        THEN {Steps(w, tls, <<"greeting", "ehlo", "starttls">> \o
                            (IF loc[w].d.dane_policy THEN <<"dane_verified">> ELSE <<>>) \o
                            Report(w, "report_success") \o <<"deliver_tls">>)}
             \cup
             (IF loc[w].d.dane_policy /\ DaneVerify(FALSE) = "deliver"
              THEN {Steps(w, tls, <<"greeting", "ehlo", "starttls", "dane_failed">> \o
                                  Report(w, "report_failure") \o
                                  Report(w, "report_success") \o <<"deliver_tls">>)}
              ELSE {})
             \cup
             (IF StartTlsUnavailable(strict) = "deliver"
              THEN {Steps(w, tls, <<"greeting", "ehlo", "starttls_unavailable">> \o
                                  Report(w, "report_failure") \o <<"deliver_plain">>)}
              ELSE {})
        ELSE IF StartTlsDisabled(strict) = "deliver"
        THEN {Steps(w, tls, <<"greeting", "ehlo", "starttls_disabled", "deliver_plain">>)}
        ELSE {}

\* A session that fails before message.deliver and goes on with the next IP
\* of the host.
SessionFailedNextIp(w) ==
    /\ pc[w] = "session"
    /\ \E tls \in RequireOptional, implicit \in ImplicitTls(w) :
          \E f \in IF implicit THEN ImplicitTlsFailures(w, tls)
                               ELSE StartTlsFailures(w, tls) :
             /\ SetLoc(w, [loc[w] EXCEPT !.iidx = @ + 1,
                                         !.d.last_status = f.status])
             /\ Logged(w, f.ev)
             /\ Goto(w, "ip")
    /\ UNCHANGED <<now, lease, store, attempts, completions, removes, chan>>

\* The session fails before message.deliver: continue 'next_host.
SessionFailed(w) ==
    /\ pc[w] = "session"
    /\ \E tls \in RequireOptional, implicit \in ImplicitTls(w) :
          \E f \in IF implicit THEN ImplicitTlsFailures(w, tls)
                               ELSE StartTlsFailures(w, tls) :
             NextHost(w, f.status, f.ev)
    /\ UNCHANGED <<now, lease, store, attempts, completions, removes, chan>>

\* A session that records the result of message.deliver and goes on with the
\* next IP of the host.
SessionDeliveredNextIp(w) ==
    /\ pc[w] = "session"
    /\ \E tls \in RequireOptional, implicit \in ImplicitTls(w) :
          \E steps \in SessionDeliveries(w, tls, implicit),
             dl \in Deliveries(loc[w].rcpts, loc[w].didx), schedule \in Schedules :
             /\ SetLoc(w, [loc[w] EXCEPT
                   !.msg.domains[loc[w].didx] =
                       set_status(CurDomain(w), dl.result, schedule, now),
                   !.rcpts = dl.rcpts,
                   !.iidx = @ + 1])
             /\ Logged(w, steps)
             /\ completions' = Count(loc[w].rcpts, dl.rcpts)
             /\ Goto(w, "ip")
    /\ UNCHANGED <<now, lease, store, attempts, removes, chan>>

\* message.deliver is called; set_status(delivery_result), next domain.
SessionDelivered(w) ==
    /\ pc[w] = "session"
    /\ \E tls \in RequireOptional, implicit \in ImplicitTls(w) :
          \E steps \in SessionDeliveries(w, tls, implicit),
             dl \in Deliveries(loc[w].rcpts, loc[w].didx), schedule \in Schedules :
             EndDomain(w, set_status(CurDomain(w), dl.result, schedule, now),
                       dl.rcpts, steps)
    /\ UNCHANGED <<now, lease, store, attempts, removes, chan>>

\* ---------------------------------------------------- deliver_task: the end
\* A deliver_task that leaves the recipients out of the message.
NotRestored(w) == [loc[w] EXCEPT !.rcpts = <<>>]

\* message.recipients = recipients; send_dsn.
Restored(w) == [loc[w] EXCEPT !.msg.recipients = loc[w].rcpts, !.rcpts = <<>>]

\* next_event() is Some(due): save_changes, Deferred.
FinishDeferred(w) ==
    /\ pc[w] = "finish"
    /\ LET l == Restored(w)
       IN  /\ next_event(l.msg) # {}
           /\ \E ok \in BOOLEAN :
                 /\ store' = save_changes(store, l.msg, l.due,
                                          SetMin(next_event(l.msg)), ok)
                 /\ SetLoc(w, Deferred(l, ok))
    /\ SetLog(w, NoLog)
    /\ Goto(w, "unlock")
    /\ UNCHANGED <<now, lease, attempts, completions, removes, chan>>

\* next_event() is None: remove, Completed.
FinishCompleted(w) ==
    /\ pc[w] = "finish"
    /\ LET l == Restored(w)
       IN  /\ next_event(l.msg) = {}
           /\ \E ok \in BOOLEAN :
                 /\ store' = remove(store, l.due, ok)
                 /\ SetLoc(w, Done(l, ok))
    /\ removes' = Incr(removes)
    /\ SetLog(w, NoLog)
    /\ Goto(w, "unlock")
    /\ UNCHANGED <<now, lease, attempts, completions, chan>>

\* -------------------------------------------------------- specifications
\* try_deliver and the parts of deliver_task that every attempt runs.
Run(w) ==
    \/ LockAcquired(w)
    \/ ReadMessage(w)
    \/ TaskExpired(w)
    \/ TaskDue(w)
    \/ SenderAllowed(w)
    \/ FinishDeferred(w)
    \/ FinishCompleted(w)
    \/ UnlockEvent(w)
    \/ Notify(w)

\* The sender and recipient-domain limiters deny.
Throttled(w) ==
    \/ SenderDenied(w)
    \/ RcptThrottled(w)

\* Delivery to a remote host.
Remote(w) ==
    \/ RemoteSetup(w)
    \/ MtaStsLookup(w)
    \/ MtaStsFailed(w)
    \/ MxLookup(w)
    \/ MxFailed(w)
    \/ NullMx(w)
    \/ HostNotAuthorized(w)
    \/ HostUnresolved(w)
    \/ HostDaneFailed(w)
    \/ HostReady(w)
    \/ AfterHosts(w)
    \/ IpsExhausted(w)
    \/ RemoteThrottled(w)
    \/ ConnectFailed(w)
    \/ Connected(w)
    \/ SessionFailed(w)
    \/ SessionDelivered(w)

\* The first attempt on the message.
FirstAttempt(w) == attempts = 0 /\ Spawn(w)

\* An attempt of the queue manager that has handled every WorkerDone event.
NextAttempt(w) == chan.len = 0 /\ Spawn(w)

\* One attempt of one worker on a message of one domain, every path of
\* deliver_task; no time passes while the worker runs.
Next ==
    \/ Pause \/ Receive
    \/ FirstAttempt(1) \/ Run(1) \/ Throttled(1) \/ LocalDelivery(1) \/ Remote(1)

Spec == Init /\ [][Next]_vars

\* Attempts of one worker that follow one another on a message of two
\* domains; every domain is routed to local delivery.
NextQueue ==
    \/ Pause \/ Receive
    \/ NextAttempt(1) \/ Run(1) \/ TaskNotDue(1) \/ DomainSkip(1)
    \/ Throttled(1) \/ LocalDelivery(1)

SpecQueue == InitQueue /\ [][NextQueue]_vars

\* Several workers on a message of one recipient; every domain is routed to
\* local delivery, and time passes while the workers run.
NextConc ==
    \/ Tick \/ Receive
    \/ \E w \in Workers :
          \/ Spawn(w) \/ LockBusy(w) \/ Run(w)
          \/ MissingMessage(w) \/ TaskNotDue(w) \/ LocalDelivery(w)

SpecConc == InitConc /\ [][NextConc]_vars

\* try_deliver of several workers and the queue manager's end of the channel.
\* deliver_task is cut down to its returns before the domain loop (remove
\* when nothing is pending, save_changes after a sender denial): try_deliver
\* awaits deliver_task in one place and goes on in the same way whatever it
\* returns.
NextLease ==
    \/ Tick \/ Receive \/ Close
    \/ \E w \in Workers :
          \/ Spawn(w) \/ LockAcquired(w) \/ LockBusy(w) \/ ReadMessage(w)
          \/ MissingMessage(w) \/ TaskExpired(w) \/ TaskDue(w) \/ SenderDenied(w)
          \/ UnlockEvent(w) \/ Notify(w)

SpecLease == InitConc /\ [][NextLease]_vars

\* Workers that may stall while they hold the lease, under a queue manager
\* that scans again and again: the clock runs, the manager receives and
\* rescans, and a task that is not holding the lease runs on (tokio polls a
\* task that is ready); a task that holds the lease may stop anywhere.
NextStall ==
    \/ Tick \/ Receive
    \/ \E w \in Workers :
          \/ Rescan(w) \/ LockAcquired(w) \/ LockBusy(w) \/ ReadMessage(w)
          \/ MissingMessage(w) \/ TaskExpired(w) \/ UnlockEvent(w) \/ Notify(w)

SpecStall ==
    /\ InitConc
    /\ [][NextStall]_vars
    /\ WF_vars(Tick)
    /\ WF_vars(Receive)
    /\ \A w \in Workers :
          /\ WF_vars(Rescan(w))
          /\ WF_vars(LockAcquired(w))
          /\ WF_vars(LockBusy(w))
          /\ WF_vars(Notify(w))

\* One attempt of one worker on a message of two domains, made as soon as
\* the message is queued and each domain routed to a remote host, up to the
\* connection: the limiters, the MTA-STS and MX lookups, the hosts and their
\* IPs.
NextDomains ==
    \/ Receive
    \/ FirstAttempt(1) \/ LockAcquired(1) \/ ReadMessage(1) \/ TaskDue(1)
    \/ SenderAllowed(1) \/ FinishDeferred(1) \/ FinishCompleted(1)
    \/ UnlockEvent(1) \/ Notify(1)
    \/ RcptThrottled(1)
    \/ RemoteSetup(1) \/ MtaStsLookup(1) \/ MtaStsFailed(1)
    \/ MxLookup(1) \/ MxFailed(1)
    \/ HostUnresolved(1) \/ HostReady(1)
    \/ RemoteThrottled(1) \/ ConnectFailed(1) \/ IpsExhausted(1) \/ AfterHosts(1)

SpecDomains == InitQueue /\ [][NextDomains]_vars

\* ------------------------------------------------ Domain methods on their own
\* The statuses a caller may hand to set_status.
Statuses ==
    {Scheduled, Completed, TemporaryFailure("Smtp"), PermanentFailure("Smtp")}

\* A call of a method of Domain: the method, its arguments, the domain as it
\* was before the call and the time of the call.
Call(method, dom, status, schedule) ==
    [e |-> method, status |-> status, schedule |-> schedule,
     before |-> dom, t |-> now]

\* domain.retry(schedule) on the domain d of the stored message.
CallRetry ==
    /\ \E d \in DOMAIN store.msg.domains, schedule \in Schedules :
          /\ store.msg.domains[d].inner < MaxInner
          /\ store' = [store EXCEPT !.msg.domains[d] = retry(@, schedule, now)]
          /\ log' = [log EXCEPT ![1] =
                        [dom |-> d, seen |-> {},
                         ev  |-> <<Call("retry", store.msg.domains[d],
                                        store.msg.domains[d].status, schedule)>>]]
    /\ UNCHANGED <<now, lease, attempts, pc, loc, completions, removes, chan>>

\* domain.set_status(status, schedule) on the domain d of the stored message.
CallSetStatus ==
    /\ \E d \in DOMAIN store.msg.domains, status \in Statuses,
          schedule \in Schedules :
          /\ store.msg.domains[d].inner < MaxInner
          /\ store' = [store EXCEPT !.msg.domains[d] =
                          set_status(@, status, schedule, now)]
          /\ log' = [log EXCEPT ![1] =
                        [dom |-> d, seen |-> {},
                         ev  |-> <<Call("set_status", store.msg.domains[d],
                                        status, schedule)>>]]
    /\ UNCHANGED <<now, lease, attempts, pc, loc, completions, removes, chan>>

NextMethods == Tick \/ CallRetry \/ CallSetStatus

\* The methods of Domain applied in any order, at any time, to the domain of
\* a message of one recipient.
SpecMethods == InitConc /\ [][NextMethods]_vars

\* ------------------------------------------------------------------ claims
\* The worker w is between a successful try_lock_event and its unlock_event.
Holding(w) == pc[w] \notin {"idle", "lock", "notify"}

HasMsg(w) == loc[w].msg # NoMsg

\* The domains of the message worker w holds.
DomainsHeld(w) == IF HasMsg(w) THEN DOMAIN loc[w].msg.domains ELSE {}

\* The last step of worker w did something of the kind e.
Did(w, e) == \E n \in DOMAIN log[w].ev : log[w].ev[n].e = e

\* C1: under any interleaving of several workers (store writes that fail, a
\* lease that expires while its holder still runs), no recipient makes the
\* transition to Completed more than once.
NoDoubleCompleted == \A r \in DOMAIN completions : completions[r] <= 1

\* C2: at any time at most one worker is between a successful
\* try_lock_event and its unlock_event.
OneLeaseHolder == Cardinality({w \in Workers : Holding(w)}) <= 1

\* C3: when is_strict_tls holds for a host, the message is never handed to
\* deliver() over a plaintext connection to it, whatever the TLS strategy.
NoPlaintextWhenStrict ==
    \A w \in Workers : \A n \in DOMAIN log[w].ev :
       log[w].ev[n].e = "deliver_plain" => ~log[w].ev[n].strict

\* A sender limiter denied in this step of w.
SenderDeniedStep(w) == pc[w] = "throttle" /\ pc'[w] = "unlock"

\* A recipient-domain or remote-IP limiter denied in this step of w.
DomainDeniedStep(w) ==
    /\ pc[w] \in {"domain", "ip"}
    /\ loc'[w] # loc[w]
    /\ \E n \in DOMAIN log'[w].ev :
          log'[w].ev[n].e \in {"rcpt_throttle", "remote_throttle"}

\* C4: a denial by a rate limiter never increments retry.inner: a sender
\* denial leaves retry.inner of every domain as it is, in the worker's message
\* and in what it saves; a recipient-domain or remote-IP denial leaves
\* retry.inner of the throttled domain as it is and sets its due time to the
\* limiter's retry_at.
RateLimitKeepsInner ==
    [][\A w \in Workers :
          /\ SenderDeniedStep(w) =>
                \A d \in DOMAIN loc[w].msg.domains :
                   /\ loc'[w].msg.domains[d].inner = loc[w].msg.domains[d].inner
                   /\ store' # store =>
                         store'.msg.domains[d].inner = loc[w].msg.domains[d].inner
          /\ DomainDeniedStep(w) =>
                LET d == log'[w].dom
                IN  /\ loc'[w].msg.domains[d].inner = loc[w].msg.domains[d].inner
                    /\ loc'[w].msg.domains[d].due \in RetryAts(now)
      ]_vars

\* C4, its case: a remote-IP limiter denied after a failed connect, and the
\* domain has no retry counted.
RateLimitKeepsInnerCase ==
    \E w \in Workers :
       /\ Did(w, "remote_throttle")
       /\ <<log[w].dom, 1, "connect">> \in log[w].seen
       /\ loc[w].msg.domains[log[w].dom].status = TemporaryFailure("RateLimited")
       /\ loc[w].msg.domains[log[w].dom].inner = 0

\* C5: an attempt that reads the message when every domain has
\* expires <= now calls neither the limiters nor the domain loop: it calls
\* message.remove and returns Completed; when the write succeeds the message
\* is gone from the store.
ExpiredIsRemoved ==
    \A w \in Workers :
       loc[w].expired0 =>
          /\ pc[w] \in {"task", "unlock", "notify"}
          /\ pc[w] # "task" =>
                /\ loc[w].result.k = "Completed"
                /\ loc[w].op = "remove"
                /\ loc[w].op_ok => store.msg = NoMsg

\* C5, its case: the second attempt finds every domain expired after the first
\* one left a domain in TemporaryFailure, and removes the message.
ExpiredIsRemovedCase ==
    \E w \in Workers :
       /\ loc[w].expired0
       /\ pc[w] = "notify"
       /\ attempts = 2
       /\ \E d \in DOMAIN loc[w].msg.domains :
             loc[w].msg.domains[d].status = PermanentFailure("Smtp")
       /\ store.msg = NoMsg

\* C6: no step decreases retry.inner of a domain, in the message a worker
\* holds or in the stored message, over the attempts that follow one another.
InnerNonDecreasing ==
    [][/\ \A w \in Workers :
             (HasMsg(w) /\ loc'[w].msg # NoMsg) =>
                \A d \in DOMAIN loc[w].msg.domains :
                   loc'[w].msg.domains[d].inner >= loc[w].msg.domains[d].inner
       /\ (store.msg # NoMsg /\ store'.msg # NoMsg) =>
             \A d \in DOMAIN store.msg.domains :
                store'.msg.domains[d].inner >= store.msg.domains[d].inner
      ]_vars

\* C6, its case: the stored message has a domain that was retried twice, and
\* another that was retried once and then settled.
InnerNonDecreasingCase ==
    /\ store.msg # NoMsg
    /\ \E d1, d2 \in DOMAIN store.msg.domains :
          /\ store.msg.domains[d1].inner = 2
          /\ store.msg.domains[d2].inner = 1
          /\ Terminal(store.msg.domains[d2].status)

\* retry was called for the domain d of worker w's message in this step.
RetryStep(w, d) ==
    /\ HasMsg(w)
    /\ loc'[w].msg # NoMsg
    /\ loc'[w].msg.domains[d].inner > loc[w].msg.domains[d].inner

\* The durations retry may add for a domain whose retry.inner is n.
DurationsAt(n) == {sch[Min2(n, Len(sch) - 1) + 1] : sch \in Schedules}

\* C7 as stated: after every call of retry(schedule) made at time now the
\* domain's retry.due is strictly greater than now.
RetryDueAfterNow ==
    [][\A w \in Workers : \A d \in DomainsHeld(w) :
          RetryStep(w, d) => loc'[w].msg.domains[d].due > now'
      ]_vars

\* C7: after every call of retry(schedule) made at time now, retry.due is
\* now plus the duration of the schedule at min(retry.inner, len - 1): never
\* below now, and equal to now when that duration is zero.
RetryDueNotBeforeNow ==
    [][\A w \in Workers : \A d \in DomainsHeld(w) :
          RetryStep(w, d) =>
             /\ loc'[w].msg.domains[d].due >= now'
             /\ loc'[w].msg.domains[d].due - now' \in
                   DurationsAt(loc[w].msg.domains[d].inner)
             /\ loc'[w].msg.domains[d].inner = loc[w].msg.domains[d].inner + 1
      ]_vars

\* C7, its case: a failed delivery at a time after 0 was retried with a zero
\* duration, and the domain is due at once.
RetryDueNotBeforeNowCase ==
    \E w \in Workers :
       /\ pc[w] = "finish"
       /\ now > 0
       /\ log[w].dom \in DOMAIN loc[w].msg.domains
       /\ loc[w].msg.domains[log[w].dom].status.k = "TemporaryFailure"
       /\ loc[w].msg.domains[log[w].dom].inner = 1
       /\ loc[w].msg.domains[log[w].dom].due = now

\* The worker w found a null MX in this step.
NullMxStep(w) ==
    /\ pc[w] = "mx"
    /\ \E n \in DOMAIN log'[w].ev : log'[w].ev[n].e = "null_mx"

\* C8: when the MX lookup yields a null MX the domain becomes
\* PermanentFailure with the null-MX reason, retry.inner and retry.due stay as
\* they are, and no IP was resolved and no connection opened for the domain
\* in the attempt; the loop leaves the domain.
NullMxSink ==
    [][\A w \in Workers :
          NullMxStep(w) =>
             LET d == loc[w].didx
             IN  /\ loc'[w].msg.domains[d].status = PermanentFailure("NullMx")
                 /\ loc'[w].msg.domains[d].inner = loc[w].msg.domains[d].inner
                 /\ loc'[w].msg.domains[d].due = loc[w].msg.domains[d].due
                 /\ loc'[w].rcpts = loc[w].rcpts
                 /\ loc'[w].didx = d + 1
                 /\ \A x \in log'[w].seen : x[1] # d
      ]_vars

\* C8, its case: the null MX was found at a time after 0 for a message whose
\* TLS-RPT record had been looked up.
NullMxSinkCase ==
    \E w \in Workers :
       /\ Did(w, "null_mx")
       /\ now > 0
       /\ loc[w].msg.domains[log[w].dom].status = PermanentFailure("NullMx")
       /\ loc[w].msg.domains[log[w].dom].inner = 0

\* C9: a step of the domain loop that does something for a domain finds it
\* Scheduled or TemporaryFailure with retry.due <= now; a domain that is
\* Completed or PermanentFailure keeps its status, its retry state and the
\* statuses of its recipients in every later step of every attempt, in the
\* worker's message and in the stored one.
TerminalIsAbsorbing ==
    [][/\ \A w \in Workers :
             (pc[w] = "domain" /\ log'[w] # log[w] /\ log'[w].ev # <<>>) =>
                /\ log'[w].dom = loc[w].didx
                /\ Eligible(loc[w].msg.domains[loc[w].didx], now)
       /\ \A w \in Workers :
             (HasMsg(w) /\ loc'[w].msg # NoMsg) =>
                \A d \in DOMAIN loc[w].msg.domains :
                   Terminal(loc[w].msg.domains[d].status) =>
                      /\ loc'[w].msg.domains[d] = loc[w].msg.domains[d]
                      /\ pc[w] = "domain" =>
                            \A r \in RcptsOf(loc[w].rcpts, d) :
                               loc'[w].rcpts[r] = loc[w].rcpts[r]
       /\ (store.msg # NoMsg /\ store'.msg # NoMsg) =>
             \A d \in DOMAIN store.msg.domains :
                Terminal(store.msg.domains[d].status) =>
                   store'.msg.domains[d] = store.msg.domains[d]
      ]_vars

\* C9, its case: in the second attempt the first domain is stored as
\* Completed and the worker has just delivered to the second domain.
TerminalIsAbsorbingCase ==
    \E w \in Workers :
       /\ attempts = 2
       /\ store.msg # NoMsg
       /\ store.msg.domains[1].status = Completed
       /\ HasMsg(w)
       /\ loc[w].msg.domains[1] = store.msg.domains[1]
       /\ log[w].dom = 2
       /\ Did(w, "deliver_local")

\* C10: over any sequence of attempts by any number of workers on one
\* message, message.remove is invoked at most once.
RemovedAtMostOnce == removes <= 1

\* C11: no step of a delivery worker (the expiry sweep, a throttle,
\* set_status, retry, any branch of deliver_task) changes expires of a domain:
\* in the message a worker holds it is the value the attempt read from the
\* store, and the value a save writes back is the stored one.
ExpiresFixed ==
    [][/\ \A w \in Workers : \A d \in DomainsHeld(w) :
             /\ loc'[w].msg # NoMsg =>
                   loc'[w].msg.domains[d].expires = loc[w].msg.domains[d].expires
             /\ (store.msg # NoMsg /\ pc[w] # "read" /\ pc'[w] = "unlock") =>
                   loc'[w].msg.domains[d].expires = store.msg.domains[d].expires
       /\ \A w \in Workers :
             (pc[w] = "read" /\ loc'[w].msg # NoMsg) =>
                \A d \in DOMAIN store.msg.domains :
                   loc'[w].msg.domains[d].expires = store.msg.domains[d].expires
       /\ (store.msg # NoMsg /\ store'.msg # NoMsg) =>
             \A d \in DOMAIN store.msg.domains :
                store'.msg.domains[d].expires = store.msg.domains[d].expires
      ]_vars

\* C11, its case: a failed remote delivery was retried at a time after 0 and
\* the message saved, and the retried domain is not due before it expires.
ExpiresFixedCase ==
    \E w \in Workers :
       /\ pc[w] = "unlock"
       /\ loc[w].op = "save"
       /\ loc[w].op_ok
       /\ now > 0
       /\ store.msg.domains[1].status.k = "TemporaryFailure"
       /\ store.msg.domains[1].inner = 1
       /\ store.msg.domains[1].expires = 2
       /\ store.msg.domains[1].due >= 2

\* The recipients rs are those of the message of Spec as enqueued: the same
\* addresses in the same order, each with its domain_idx.
SameRecipients(rs) ==
    /\ Len(rs) = Len(OneDomain)
    /\ \A r \in DOMAIN rs :
          rs[r].address = r /\ rs[r].domain_idx = OneDomain[r]

\* Every recipient of rs refers to a domain of the message m.
DomainIdxInRange(m, rs) ==
    \A r \in DOMAIN rs : rs[r].domain_idx \in DOMAIN m.domains

\* The positions of deliver_task between mem::take and the restore.
LoopPcs == {"domain", "mta_sts", "mx", "host", "ip", "session", "finish"}

\* C12: an attempt that reaches the domain loop holds the recipients outside
\* the message while it is in the loop, and has put them back when it saves or
\* removes: the message saved or removed has the same recipients in the same
\* order with the same domain_idx, the domain list has the same length, and
\* every domain_idx refers to a domain of the message throughout.
RecipientsRestored ==
    \A w \in Workers :
       HasMsg(w) =>
          /\ DOMAIN loc[w].msg.domains = DomainsOf(OneDomain)
          /\ DomainIdxInRange(loc[w].msg, loc[w].msg.recipients)
          /\ DomainIdxInRange(loc[w].msg, loc[w].rcpts)
          /\ pc[w] \in LoopPcs =>
                /\ loc[w].msg.recipients = <<>>
                /\ SameRecipients(loc[w].rcpts)
          /\ pc[w] \in {"unlock", "notify"} =>
                /\ loc[w].rcpts = <<>>
                /\ SameRecipients(loc[w].msg.recipients)
                /\ (loc[w].op = "save" /\ loc[w].op_ok) =>
                      /\ SameRecipients(store.msg.recipients)
                      /\ DOMAIN store.msg.domains = DomainsOf(OneDomain)

\* C12, its case: the attempt went through the domain loop, delivered to one
\* recipient and not to the other, and saved the message.
RecipientsRestoredCase ==
    \E w \in Workers :
       /\ pc[w] = "unlock"
       /\ loc[w].didx > 1
       /\ loc[w].op = "save"
       /\ loc[w].op_ok
       /\ store.msg.recipients[1].status.k = "TemporaryFailure"
       /\ store.msg.recipients[2].status = Completed

\* C13: a run of try_deliver that acquired the lease calls unlock_event
\* exactly once before it ends, with the message found or missing, and not
\* before deliver_task has made its save_changes or remove (or the orphan
\* event was cleared); a run that did not acquire the lease holds no message
\* and has made no write to the store.
LeaseReleasedOnce ==
    \A w \in Workers :
       /\ ~loc[w].locked =>
             /\ ~HasMsg(w)
             /\ loc[w].op = "none"
             /\ loc[w].unlocks = 0
             /\ pc[w] \in {"idle", "lock", "notify"}
       /\ Holding(w) => loc[w].locked /\ loc[w].unlocks = 0
       /\ (pc[w] = "unlock" \/ loc[w].unlocks > 0) =>
             /\ loc[w].op \in {"save", "remove", "clear"}
             /\ HasMsg(w) <=> loc[w].op \in {"save", "remove"}
       /\ (pc[w] = "notify" /\ loc[w].locked) => loc[w].unlocks = 1

\* C13, its case: one worker removed the message and released the lease, the
\* other then acquired it, found no message and released it too.
LeaseReleasedOnceCase ==
    \E w1, w2 \in Workers :
       /\ pc[w1] = "notify" /\ pc[w2] = "notify"
       /\ loc[w1].op = "remove" /\ loc[w1].op_ok /\ loc[w1].unlocks = 1
       /\ loc[w2].op = "clear" /\ loc[w2].unlocks = 1

\* try_lock_event failed in this step of w.
LockBusyStep(w) == pc[w] = "lock" /\ pc'[w] # "lock" /\ ~LeaseFree(lease, now)

\* C14: when try_lock_event fails the task reads no message, generates no
\* span_id, writes nothing to the store, leaves the lease as it is and does
\* not call unlock_event, and its outcome is Locked { until } with until in
\* [now + LOCK_EXPIRY + 5, now + LOCK_EXPIRY + 9]; the next thing it does is
\* to notify.
LockedOutcome ==
    [][\A w \in Workers :
          LockBusyStep(w) =>
             /\ pc'[w] = "notify"
             /\ loc'[w].result.k = "Locked"
             /\ loc'[w].result.until >= now + LOCK_EXPIRY + 5
             /\ loc'[w].result.until <= now + LOCK_EXPIRY + 9
             /\ loc'[w].msg = NoMsg
             /\ ~loc'[w].span
             /\ ~loc'[w].locked
             /\ loc'[w].unlocks = 0
             /\ loc'[w].op = "none"
             /\ UNCHANGED <<store, lease, removes, completions>>
      ]_vars

\* C14, its case: a worker got Locked at a time after 0 while the other held
\* the lease and the message.
LockedOutcomeCase ==
    \E w1, w2 \in Workers :
       /\ pc[w1] = "notify"
       /\ loc[w1].result.k = "Locked"
       /\ loc[w1].result.until = now + LOCK_EXPIRY + 9
       /\ now > 0
       /\ Holding(w2) /\ HasMsg(w2)
       /\ lease.held /\ lease.expires > now

\* read_message found no message in this step of w.
MissingStep(w) == pc[w] = "read" /\ pc'[w] # "read" /\ store.msg = NoMsg

\* The task of w that found no message calls unlock_event in this step.
MissingUnlockStep(w) ==
    pc[w] = "unlock" /\ loc[w].op = "clear" /\ pc'[w] # "unlock"

\* C15: when the lease is acquired and read_message finds no message, the
\* task writes one batch that clears the QueueEvent (self.due, queue_id) and
\* nothing else, then calls unlock_event, which leaves the lease released, and
\* its outcome is Completed; it does so too when the write fails and the event
\* stays in the store.
MissingIsCompleted ==
    [][\A w \in Workers :
          /\ MissingStep(w) =>
                /\ pc'[w] = "unlock"
                /\ loc'[w].op = "clear"
                /\ loc'[w].result.k = "Completed"
                /\ store'.msg = NoMsg
                /\ store'.events = IF loc'[w].op_ok
                                   THEN store.events \ {loc[w].due}
                                   ELSE store.events
                /\ lease' = lease
                /\ removes' = removes
          /\ MissingUnlockStep(w) =>
                /\ pc'[w] = "notify"
                /\ ~lease'.held
                /\ loc'[w].unlocks = 1
                /\ loc'[w].result.k = "Completed"
                /\ store' = store
      ]_vars

\* C15, its case: the write that clears the event failed, and the task has
\* released the lease and is about to report Completed.
MissingIsCompletedCase ==
    \E w \in Workers :
       /\ pc[w] = "notify"
       /\ loc[w].op = "clear"
       /\ ~loc[w].op_ok
       /\ store.msg = NoMsg
       /\ loc[w].result.k = "Completed"
       /\ loc[w].unlocks = 1
       /\ ~lease.held

\* The task of worker w ends in this step.
TaskEnds(w) == pc[w] # "idle" /\ pc'[w] = "idle"

\* C16: every run of try_deliver makes one attempt to send WorkerDone, as
\* the last thing it does: the step that ends a task is a send of one event
\* (queued, or refused by a closed channel) with status Completed, Deferred or
\* Locked, no other step sends, and a task that held the lease has called
\* unlock_event before.
OneNotification ==
    [][/\ \A w \in Workers :
             TaskEnds(w) =>
                /\ pc[w] = "notify"
                /\ loc[w].result.k \in {"Completed", "Deferred", "Locked"}
                /\ loc[w].result.k = "Locked" <=> ~loc[w].locked
                /\ loc[w].locked => loc[w].unlocks = 1
                /\ chan'.len = IF chan.closed THEN chan.len ELSE chan.len + 1
                /\ \A v \in Workers \ {w} : pc'[v] = pc[v]
       /\ chan'.len > chan.len => \E w \in Workers : TaskEnds(w)
      ]_vars

\* C16, its case: one task has ended and its event waits in the channel; the
\* other held the lease, saved, released it and is at its send.
OneNotificationCase ==
    \E w1, w2 \in Workers :
       /\ pc[w1] = "idle"
       /\ attempts = 2
       /\ chan.len = 1
       /\ pc[w2] = "notify"
       /\ loc[w2].result.k = "Deferred"
       /\ loc[w2].unlocks = 1

\* C17: a worker never waits on the notification channel: no task is at its
\* send of WorkerDone while the channel is open and has no room.
NeverWaitsOnChannel ==
    \A w \in Workers : ~(pc[w] = "notify" /\ Full(chan))

\* The lease is held by worker w alone, runs out within the clock of the
\* model, and the event of the message is still in the store.
StalledHolder(w) ==
    /\ Holding(w)
    /\ \A v \in Workers \ {w} : ~Holding(v)
    /\ lease.held
    /\ lease.expires <= MaxTime
    /\ store.events # {}

\* Locked { until } names a time after the held lease runs out.
UntilAfterExpiry ==
    [][\A w \in Workers :
          LockBusyStep(w) =>
             /\ lease.held
             /\ lease.expires <= now + LOCK_EXPIRY
             /\ loc'[w].result.until > lease.expires
             /\ LeaseFree(lease, loc'[w].result.until)
      ]_vars

\* A holder that stalls: it gives the lease up, or another worker takes it,
\* unless the holder took the event of the message out of the store before it
\* stalled (the message is gone, nothing is left to lease).
LeasedAgain ==
    \A w \in Workers :
       StalledHolder(w) ~>
          \/ ~Holding(w)
          \/ \E v \in Workers \ {w} : Holding(v)
          \/ store.events = {}

\* C18: the until of Locked { until } is strictly later than the expiry
\* (acquire time + LOCK_EXPIRY) of the lease that made try_lock_event fail, so
\* an attempt made at until finds that lease released or expired even if its
\* holder stalled; and while the clock runs and the queue manager keeps
\* scanning, a message whose worker stalls is leased again.
LockedUntilOutlastsLease == UntilAfterExpiry /\ LeasedAgain

\* C18, its case: a worker that was told Locked has come back and holds the
\* lease, past the expiry of the first holder, which has not moved on.
LockedUntilOutlastsLeaseCase ==
    \E w1, w2 \in Workers :
       /\ w1 # w2
       /\ pc[w1] = "read"
       /\ Holding(w2) /\ HasMsg(w2)
       /\ now >= LOCK_EXPIRY
       /\ chan.len = 1

\* The worker w runs has_pending_delivery in this step.
SweepStep(w) == pc[w] = "task" /\ pc'[w] # "task"

\* C19: after has_pending_delivery has run at time now, every domain with
\* expires <= now that was Scheduled or TemporaryFailure is PermanentFailure,
\* and so is every recipient of such a domain that was Scheduled or
\* TemporaryFailure.
ExpiredAllPermanent ==
    [][\A w \in Workers :
          SweepStep(w) =>
             \A d \in DOMAIN loc[w].msg.domains :
                (loc[w].msg.domains[d].expires <= now
                    /\ Pending(loc[w].msg.domains[d].status)) =>
                   /\ loc'[w].msg.domains[d].status.k = "PermanentFailure"
                   /\ \A r \in RcptsOf(loc[w].msg.recipients, d) :
                         Pending(loc[w].msg.recipients[r].status) =>
                            loc'[w].msg.recipients[r].status.k = "PermanentFailure"
      ]_vars

\* C20: has_pending_delivery returns true exactly when a domain is Scheduled
\* or TemporaryFailure after the sweep, which is exactly when a domain was
\* Scheduled or TemporaryFailure with expires > now before it; the sweep
\* leaves every domain with expires > now as it is, and every Completed or
\* PermanentFailure status of a domain or a recipient, and changes nothing
\* but statuses.
PendingIffLeft ==
    \A w \in Workers :
       pc[w] = "task" =>
          LET m  == loc[w].msg
              sw == has_pending_delivery(m, now)
          IN  /\ sw.pending <=> \E d \in DOMAIN m.domains :
                                   Pending(sw.msg.domains[d].status)
              /\ sw.pending <=> \E d \in DOMAIN m.domains :
                                   /\ Pending(m.domains[d].status)
                                   /\ m.domains[d].expires > now
              /\ \A d \in DOMAIN m.domains :
                    /\ m.domains[d].expires > now =>
                          sw.msg.domains[d] = m.domains[d]
                    /\ Terminal(m.domains[d].status) =>
                          sw.msg.domains[d] = m.domains[d]
                    /\ sw.msg.domains[d] =
                          [m.domains[d] EXCEPT !.status = sw.msg.domains[d].status]
              /\ \A r \in DOMAIN m.recipients :
                    /\ (Terminal(m.recipients[r].status)
                           \/ m.domains[m.recipients[r].domain_idx].expires > now) =>
                          sw.msg.recipients[r] = m.recipients[r]
                    /\ sw.msg.recipients[r] =
                          [m.recipients[r] EXCEPT !.status = sw.msg.recipients[r].status]

\* C20, its case: the second attempt sweeps a message of which one domain
\* failed before and has expired and the other is still to be delivered:
\* the sweep changes the first and returns true for the second.
PendingIffLeftCase ==
    \E w \in Workers :
       /\ pc[w] = "task"
       /\ attempts = 2
       /\ \E d1, d2 \in DOMAIN loc[w].msg.domains :
             /\ loc[w].msg.domains[d1].status.k = "TemporaryFailure"
             /\ loc[w].msg.domains[d1].expires <= now
             /\ Pending(loc[w].msg.domains[d2].status)
             /\ loc[w].msg.domains[d2].expires > now
       /\ has_pending_delivery(loc[w].msg, now).pending
       /\ has_pending_delivery(loc[w].msg, now).msg # loc[w].msg

\* The message of worker w after the sweep has a pending domain, and every
\* pending domain is due later than now.
NotYetDue(w) ==
    /\ pc[w] = "task"
    /\ LET m == has_pending_delivery(loc[w].msg, now).msg
       IN  /\ PendingDomains(m) # {}
           /\ \A d \in PendingDomains(m) : m.domains[d].due > now

\* C21: when domains are pending after the sweep and the earliest of their
\* due times is later than now, the step of the worker saves the message with
\* an event at that due time and returns Deferred: it goes to unlock_event
\* past the limiters and the domain loop, logs no lookup or connection, and
\* leaves retry.due and retry.inner of every domain as they were and every
\* status as the sweep left it.
NotDueIsRequeued ==
    [][\A w \in Workers :
          (NotYetDue(w) /\ pc'[w] # pc[w]) =>
             LET m    == has_pending_delivery(loc[w].msg, now).msg
                 dues == {m.domains[d].due : d \in PendingDomains(m)}
             IN  /\ pc'[w] = "unlock"
                 /\ loc'[w].result.k = "Deferred"
                 /\ loc'[w].op = "save"
                 /\ loc'[w].msg = m
                 /\ \A d \in DOMAIN m.domains :
                       /\ loc'[w].msg.domains[d].due = loc[w].msg.domains[d].due
                       /\ loc'[w].msg.domains[d].inner = loc[w].msg.domains[d].inner
                 /\ log'[w] = log[w]
                 /\ completions' = completions
                 /\ removes' = removes
                 /\ IF loc'[w].op_ok
                    THEN /\ store'.msg = m
                         /\ store'.events \subseteq dues
                         /\ \A x \in store'.events : \A y \in dues : x <= y
                         /\ store'.events # {}
                    ELSE store' = store
      ]_vars

\* C21, its case: the second attempt swept an expired domain, found the other
\* one due later than now and saved the message with an event at that time.
NotDueIsRequeuedCase ==
    \E w \in Workers :
       /\ pc[w] = "unlock"
       /\ attempts = 2
       /\ loc[w].result.k = "Deferred"
       /\ loc[w].op_ok
       /\ PendingDomains(loc[w].msg) # {}
       /\ \A d \in PendingDomains(loc[w].msg) : loc[w].msg.domains[d].due > now
       /\ \E d \in DOMAIN loc[w].msg.domains :
             loc[w].msg.domains[d].status.k = "PermanentFailure"
       /\ store.msg = loc[w].msg
       /\ store.events = {next_delivery_event(loc[w].msg)}

\* The due times of pending domains of m that are later than t.
LaterDues(m, t) == {x \in {m.domains[d].due : d \in PendingDomains(m)} : x > t}

\* C22: when a sender limiter denies, the step saves the message as it is
\* with an event at the lesser of retry_at and the earliest due time later
\* than now (retry_at when there is none) and returns Deferred; it goes to
\* unlock_event without entering the domain loop: no domain, recipient or log
\* entry changes.
SenderDenialRequeues ==
    [][\A w \in Workers :
          SenderDeniedStep(w) =>
             LET m == loc[w].msg
             IN  /\ loc'[w].result.k = "Deferred"
                 /\ loc'[w].op = "save"
                 /\ loc'[w].msg = m
                 /\ loc'[w].rcpts = <<>>
                 /\ loc'[w].didx = 0
                 /\ log'[w] = log[w]
                 /\ completions' = completions
                 /\ removes' = removes
                 /\ IF loc'[w].op_ok
                    THEN /\ store'.msg = m
                         /\ \E retry_at \in RetryAts(now) :
                               \E e \in {retry_at} \cup LaterDues(m, now) :
                                  /\ e <= retry_at
                                  /\ \A x \in LaterDues(m, now) : e <= x
                                  /\ store'.events = (store.events \ {loc[w].due}) \cup {e}
                    ELSE store' = store
      ]_vars

\* C22, its case: a sender limiter denied in the second attempt while one
\* domain was due and the other due a second later; the message is saved with
\* an event at that second.
SenderDenialRequeuesCase ==
    \E w \in Workers :
       /\ pc[w] = "unlock"
       /\ attempts = 2
       /\ loc[w].result.k = "Deferred"
       /\ loc[w].op_ok
       /\ log[w] = NoLog
       /\ \E d1, d2 \in PendingDomains(loc[w].msg) :
             /\ loc[w].msg.domains[d1].due <= now
             /\ loc[w].msg.domains[d2].due = now + 1
       /\ store.msg = loc[w].msg
       /\ store.events = {now + 1}

\* C23: when a recipient-domain or a remote-IP limiter denies, the step
\* records TemporaryFailure(RateLimited) with retry.due = retry_at on the
\* current domain and leaves the rest of it (retry.inner, expires), the other
\* domains and the recipients as they are; it resolves, connects and delivers
\* nothing, and the loop goes on with the following domain (or ends when there
\* is none).  No step of the loop changes a domain before the current one or
\* resolves, connects or delivers for it.
ThrottledDomainIsLeft ==
    [][\A w \in Workers :
          /\ DomainDeniedStep(w) =>
                LET d   == loc[w].didx
                    old == loc[w].msg.domains
                    new == loc'[w].msg.domains
                IN  /\ \E retry_at \in RetryAts(now) :
                          new[d] = [old[d] EXCEPT
                                       !.status = TemporaryFailure("RateLimited"),
                                       !.due = retry_at]
                    /\ \A x \in DOMAIN old : x # d => new[x] = old[x]
                    /\ loc'[w].rcpts = loc[w].rcpts
                    /\ completions' = completions
                    /\ log'[w].seen = log[w].seen
                    /\ loc'[w].didx = d + 1
                    /\ loc'[w].hidx = 0 /\ loc'[w].iidx = 0
                    /\ pc'[w] = IF d < Len(old) THEN "domain" ELSE "finish"
          /\ (pc[w] \in LoopPcs /\ pc'[w] \in LoopPcs) =>
                /\ loc'[w].didx >= loc[w].didx
                /\ \A x \in DOMAIN loc[w].msg.domains :
                      x < loc[w].didx =>
                         loc'[w].msg.domains[x] = loc[w].msg.domains[x]
                /\ \A s \in log'[w].seen \ log[w].seen : s[1] = loc[w].didx
      ]_vars

\* C23, its case: a remote-IP limiter denied for the first domain after a
\* connection to the first IP of its first host had failed; no other host of
\* that domain was resolved, and the worker went on to connect for the second
\* domain.
ThrottledDomainIsLeftCase ==
    \E w \in Workers :
       /\ pc[w] \in LoopPcs
       /\ loc[w].didx = 2
       /\ loc[w].msg.domains[1].status = TemporaryFailure("RateLimited")
       /\ loc[w].msg.domains[1].inner = 0
       /\ <<1, 1, "connect">> \in log[w].seen
       /\ \A s \in log[w].seen : s[1] = 1 => s[2] = 1
       /\ <<2, 1, "connect">> \in log[w].seen

\* The MX lookup of worker w gave the answer e in this step.
MxStep(w, e) ==
    /\ pc[w] = "mx"
    /\ \E n \in DOMAIN log'[w].ev : log'[w].ev[n].e = e

\* C24: an MX lookup that answers DnsRecordNotFound leaves the domain as it
\* is and the worker goes on to the hosts of the same domain, with the
\* implicit MX as the only host.  Any other error of the lookup sets the
\* status of the domain to the status of the error; the status is
\* TemporaryFailure, retry.inner is one more and retry.due is now plus the
\* duration of the schedule; the loop leaves the domain, and nothing was
\* resolved, connected or delivered for it in the attempt.
MxErrorHandling ==
    [][\A w \in Workers :
          LET d   == loc[w].didx
              old == loc[w].msg.domains
              new == loc'[w].msg.domains
          IN  /\ MxStep(w, "mx_not_found") =>
                    /\ new = old
                    /\ loc'[w].didx = d
                    /\ pc'[w] = "host"
                    /\ loc'[w].hidx = 1
                    /\ loc'[w].d.hop = "implicit_mx"
                    /\ HostLimit(w)' = 1
              /\ MxStep(w, "mx_error") =>
                    /\ loc[w].d.hop = "mx"
                    /\ new[d].status = TemporaryFailure("Dns")
                    /\ new[d].inner = old[d].inner + 1
                    /\ new[d].due - now \in DurationsAt(old[d].inner)
                    /\ new[d].expires = old[d].expires
                    /\ \A x \in DOMAIN old : x # d => new[x] = old[x]
                    /\ loc'[w].rcpts = loc[w].rcpts
                    /\ completions' = completions
                    /\ loc'[w].didx = d + 1
                    /\ pc'[w] = IF d < Len(old) THEN "domain" ELSE "finish"
                    /\ \A s \in log'[w].seen : s[1] # d
      ]_vars

\* C24, its case: the MX lookup of the first domain failed with an error and
\* the domain is to be retried; the lookup of the second domain found no
\* record and the worker connected to its implicit MX.
MxErrorHandlingCase ==
    \E w \in Workers :
       /\ pc[w] = "ip"
       /\ loc[w].didx = 2
       /\ loc[w].msg.domains[1].status = TemporaryFailure("Dns")
       /\ loc[w].msg.domains[1].inner = 1
       /\ \A s \in log[w].seen : s[1] # 1
       /\ loc[w].d.hop = "implicit_mx"
       /\ loc[w].msg.domains[2].status = Scheduled
       /\ <<2, 1, "connect">> \in log[w].seen

PolicyErrors == {"policy_not_found", "policy_dns_error", "policy_http_error",
                 "policy_invalid"}

\* The fetch of the MTA-STS policy failed in this step of worker w, and ev is
\* the trace event of the error.
PolicyFetchFailed(w, ev) ==
    /\ pc[w] = "mta_sts"
    /\ \E n \in DOMAIN log'[w].ev : log'[w].ev[n] = ev
    /\ ev.e \in PolicyErrors

\* What the step does, but for the TLS-RPT event, when MTA-STS is required
\* (the domain gets the status of the error through set_status and the loop
\* leaves it before any MX lookup, resolution or connection) and when it is
\* not (the worker goes on to the MX lookup of the same domain, no policy).
PolicyFetchFailure(w, ev) ==
    LET d   == loc[w].didx
        old == loc[w].msg.domains
        new == loc'[w].msg.domains
    IN  IF ev.strict
        THEN /\ new[d].status \in Failures("MtaSts")
             /\ new[d].expires = old[d].expires
             /\ IF new[d].status.k = "TemporaryFailure"
                THEN /\ new[d].inner = old[d].inner + 1
                     /\ new[d].due - now \in DurationsAt(old[d].inner)
                ELSE /\ new[d].inner = old[d].inner
                     /\ new[d].due = old[d].due
             /\ \A x \in DOMAIN old : x # d => new[x] = old[x]
             /\ loc'[w].rcpts = loc[w].rcpts
             /\ loc'[w].didx = d + 1
             /\ pc'[w] = IF d < Len(old) THEN "domain" ELSE "finish"
             /\ \A s \in log'[w].seen : s[1] # d
             /\ \A n \in DOMAIN log'[w].ev : log'[w].ev[n].e # "mx_lookup"
        ELSE /\ new = old
             /\ loc'[w].didx = d
             /\ pc'[w] = "mx"
             /\ loc'[w].d.policy = "none"

\* C25 as stated: when the fetch of the MTA-STS policy fails and MTA-STS is
\* required, whatever the error the domain is failed through set_status, a
\* TLS-RPT failure event is emitted (the domain having a TLS-RPT record to
\* report to) and the loop leaves the domain; when MTA-STS is not required
\* the domain goes on without a policy.
MtaStsFailureAlwaysReported ==
    [][\A w \in Workers : \A n \in DOMAIN log'[w].ev :
          PolicyFetchFailed(w, log'[w].ev[n]) =>
             /\ PolicyFetchFailure(w, log'[w].ev[n])
             /\ (log'[w].ev[n].strict /\ loc[w].d.tls_report) =>
                   \E k \in DOMAIN log'[w].ev : log'[w].ev[k].e = "report_failure"
      ]_vars

\* C25: when the fetch of the MTA-STS policy fails and MTA-STS is required,
\* whatever the error the domain is failed through set_status and the loop
\* leaves it with no MX lookup or connection; a TLS-RPT failure event is
\* emitted exactly when the domain has a TLS-RPT record and the error is not
\* a DNS error other than DnsRecordNotFound.  When MTA-STS is not required
\* the domain goes on without a policy.
MtaStsFailureReported ==
    [][\A w \in Workers : \A n \in DOMAIN log'[w].ev :
          PolicyFetchFailed(w, log'[w].ev[n]) =>
             /\ PolicyFetchFailure(w, log'[w].ev[n])
             /\ log'[w].ev[n].strict =>
                   ((\E k \in DOMAIN log'[w].ev : log'[w].ev[k].e = "report_failure")
                      <=> (loc[w].d.tls_report /\ log'[w].ev[n].e # "policy_dns_error"))
      ]_vars

\* C25, its case: MTA-STS is required and the fetch of the policy of the
\* first domain failed over HTTP; the failure was reported, the domain is to
\* be retried and the worker is at the second domain.
MtaStsFailureReportedCase ==
    \E w \in Workers :
       /\ pc[w] = "domain"
       /\ loc[w].didx = 2
       /\ \E n \in DOMAIN log[w].ev :
             log[w].ev[n].e = "policy_http_error" /\ log[w].ev[n].strict
       /\ Did(w, "report_failure")
       /\ loc[w].msg.domains[1].status = TemporaryFailure("MtaSts")
       /\ loc[w].msg.domains[1].inner = 1
       /\ log[w].seen = {}

\* What is done to reach a host: resolve it, connect to it, talk to it.
HostTags == {"ip_lookup", "connect", "deliver_tls", "deliver_plain"}

\* C26: while a worker is at the hosts of a domain whose MTA-STS policy is
\* in enforce mode, a host the policy did not authorise has not been
\* resolved, connected to or delivered to, and the step that found it
\* unauthorised set last_status to PermanentFailure(MtaStsError) and went on
\* to the next host; under a policy that is not in enforce mode that step
\* went on to resolve the host.  A connection or a delivery is only made to a
\* host that was resolved.  A domain whose hosts were all refused by the
\* policy ends the loop as PermanentFailure(MtaStsError).
MtaStsEnforced ==
    \A w \in Workers :
       /\ pc[w] \in {"host", "ip", "session"} =>
             /\ loc[w].d.policy = "enforce" =>
                   \A s \in log[w].seen :
                      (s[1] = loc[w].didx /\ s[3] = "not_authorized") =>
                         \A t \in HostTags : <<s[1], s[2], t>> \notin log[w].seen
             /\ \A n \in DOMAIN log[w].ev :
                   log[w].ev[n].e = "not_authorized" =>
                      IF loc[w].d.policy = "enforce"
                      THEN /\ \A k \in DOMAIN log[w].ev : log[w].ev[k].e \notin HostTags
                           /\ loc[w].d.last_status = PermanentFailure("MtaSts")
                           /\ loc[w].hidx = log[w].ev[n].h + 1
                           /\ pc[w] = "host"
                      ELSE \E k \in DOMAIN log[w].ev :
                              /\ log[w].ev[k].e = "ip_lookup"
                              /\ log[w].ev[k].h = log[w].ev[n].h
       /\ \A s \in log[w].seen :
             s[3] \in HostTags \ {"ip_lookup"} => <<s[1], s[2], "ip_lookup">> \in log[w].seen
       /\ \A d \in DomainsHeld(w) :
             (/\ pc[w] \in LoopPcs
              /\ d < loc[w].didx
              /\ \E s \in log[w].seen : s[1] = d /\ s[3] = "not_authorized"
              /\ \A s \in log[w].seen : s[1] = d => s[3] = "not_authorized") =>
                loc[w].msg.domains[d].status = PermanentFailure("MtaSts")

\* C26, its case: the policy of the domain refused both of its hosts; neither
\* was resolved and the domain ended the loop as PermanentFailure(MtaStsError).
MtaStsEnforcedCase ==
    \E w \in Workers :
       /\ pc[w] = "finish"
       /\ log[w].seen = {<<1, 1, "not_authorized">>, <<1, 2, "not_authorized">>}
       /\ loc[w].msg.domains[1].status = PermanentFailure("MtaSts")
       /\ loc[w].msg.domains[1].inner = 0

\* C27: the step that looks up the TLSA records of a host goes on to the IPs
\* of the host, where the connection is made, exactly when the lookup gave a
\* DNSSEC-validated record set with end entities or DANE is not required; a
\* DANE policy is then held for the host exactly when the record set had end
\* entities.  When DANE is required every other answer (no end entities, not
\* signed, not found, another error) goes on to the next host: no connection
\* or delivery was made to the skipped host, no DANE policy is held, and
\* last_status is PermanentFailure(DaneError), or the status of the DNS error.
DaneGate ==
    \A w \in Workers :
       /\ \A n \in DOMAIN log[w].ev :
             log[w].ev[n].e \in TlsaAnswers =>
                LET e == log[w].ev[n]
                IN  IF e.e = "EndEntities" \/ ~e.strict
                    THEN /\ pc[w] = "ip"
                         /\ loc[w].hidx = e.h
                         /\ loc[w].iidx = 1
                         /\ loc[w].d.dane_policy <=> e.e = "EndEntities"
                    ELSE /\ pc[w] = "host"
                         /\ loc[w].hidx = e.h + 1
                         /\ ~loc[w].d.dane_policy
                         /\ \A t \in {"connect", "deliver_tls", "deliver_plain"} :
                               <<loc[w].didx, e.h, t>> \notin log[w].seen
                         /\ loc[w].d.last_status =
                               IF e.e = "Error" THEN TemporaryFailure("Dns")
                                                ELSE PermanentFailure("Dane")
       /\ pc[w] = "host" => ~loc[w].d.dane_policy

\* C27, its case: DANE is required; the first host had no record set with
\* end entities and was skipped with no connection, the second had one and
\* the worker is connected to it with the DANE policy.
DaneGateCase ==
    \E w \in Workers :
       /\ pc[w] = "session"
       /\ loc[w].hidx = 2
       /\ loc[w].d.dane_policy
       /\ loc[w].d.last_status = PermanentFailure("Dane")
       /\ <<1, 1, "ip_lookup">> \in log[w].seen
       /\ <<1, 1, "connect">> \notin log[w].seen
       /\ <<1, 2, "connect">> \in log[w].seen

\* The session of worker w went through the step e in this step of w, under
\* the TLS strategy tls.
SessionStep(w, e, tls) ==
    /\ pc[w] = "session"
    /\ \E n \in DOMAIN log'[w].ev : log'[w].ev[n].e = e /\ log'[w].ev[n].tls = tls

\* is_strict_tls as the claims state it, for the host worker w is connected to.
StrictTls(w, tls) ==
    \/ tls = "Require"
    \/ loc[w].msg.flags.requiretls
    \/ loc[w].d.policy \in {"enforce", "testing"}
    \/ loc[w].d.dane_policy

\* The step of worker w called message.deliver.
DeliverCalled(w) ==
    \E n \in DOMAIN log'[w].ev : log'[w].ev[n].e \in {"deliver_tls", "deliver_plain"}

\* The step of worker w was continue 'next_host: nothing but last_status and
\* the position in the host list changed.
HostSkipped(w) ==
    /\ pc'[w] = "host"
    /\ loc'[w].hidx = loc[w].hidx + 1
    /\ loc'[w].didx = loc[w].didx
    /\ loc'[w].msg = loc[w].msg
    /\ loc'[w].rcpts = loc[w].rcpts
    /\ completions' = completions
    /\ ~DeliverCalled(w)

\* C28: when STARTTLS is tried and is unavailable, the message is handed to
\* deliver() over the plaintext connection exactly when is_strict_tls is
\* false, is_strict_tls being: TLS is required, or the message has the
\* REQUIRETLS flag, or the domain has an MTA-STS policy (enforced or not), or
\* the host has a DANE policy.  When it is true the host is skipped with a
\* STARTTLS error as last_status and deliver() is not called.
UnavailableStartTls ==
    [][\A w \in Workers : \A tls \in RequireOptional :
          SessionStep(w, "starttls_unavailable", tls) =>
             /\ tls # "Disable"
             /\ IF StrictTls(w, tls)
                THEN /\ HostSkipped(w)
                     /\ loc'[w].d.last_status \in Failures("Tls")
                ELSE /\ \E n \in DOMAIN log'[w].ev : log'[w].ev[n].e = "deliver_plain"
                     /\ \A n \in DOMAIN log'[w].ev : log'[w].ev[n].e # "deliver_tls"
                     /\ loc'[w].didx = loc[w].didx + 1
      ]_vars

\* C28, its case: TLS is optional and the message has no REQUIRETLS flag,
\* but the domain has an MTA-STS policy in testing mode: the host that does
\* not offer STARTTLS is skipped and nothing is delivered to it.
UnavailableStartTlsCase ==
    \E w \in Workers :
       /\ pc[w] = "host"
       /\ \E n \in DOMAIN log[w].ev :
             /\ log[w].ev[n].e = "starttls_unavailable"
             /\ log[w].ev[n].tls = "Optional"
             /\ log[w].ev[n].strict
       /\ loc[w].d.policy = "testing"
       /\ ~loc[w].msg.flags.requiretls
       /\ loc[w].d.last_status \in Failures("Tls")
       /\ \A s \in log[w].seen : s[3] \notin {"deliver_tls", "deliver_plain"}

\* The events of the last step of worker w hold e.
Has(w, e) == \E n \in DOMAIN log[w].ev : log[w].ev[n].e = e

\* The last step of worker w was a session that failed at the step e and went
\* on to the next host with nothing delivered.
SkippedAt(w, e) ==
    \A n \in DOMAIN log[w].ev :
       log[w].ev[n].e = e =>
          /\ pc[w] = "host"
          /\ loc[w].hidx = log[w].ev[n].h + 1
          /\ ~Has(w, "deliver_tls") /\ ~Has(w, "deliver_plain")
          /\ \A t \in {"deliver_tls", "deliver_plain"} :
                <<loc[w].didx, log[w].ev[n].h, t>> \notin log[w].seen

ImplicitTlsErrorKept ==
    \A w \in Workers :
       /\ SkippedAt(w, "tls_error")
       /\ \A n \in DOMAIN log[w].ev :
             log[w].ev[n].e = "tls_error" =>
                /\ ~Has(w, "starttls_error")
                /\ \/ Has(w, "tls_permanent")
                      /\ loc[w].d.last_status = PermanentFailure("Tls")
                   \/ Has(w, "tls_temporary")
                      /\ loc[w].d.last_status = TemporaryFailure("Tls")

\* C30, its case: the handshake with an implicit-TLS relay host failed with
\* an error from_tls_error takes for permanent while TLS was not strict, and
\* last_status is a PermanentFailure.
ImplicitTlsErrorKeptCase ==
    \E w \in Workers :
       /\ pc[w] = "host"
       /\ \E n \in DOMAIN log[w].ev :
             /\ log[w].ev[n].e = "tls_error"
             /\ ~log[w].ev[n].strict
             /\ log[w].ev[n].tls = "Optional"
       /\ Has(w, "tls_permanent")
       /\ loc[w].d.last_status = PermanentFailure("Tls")
       /\ loc[w].d.hop \in {"relay_smtp", "relay_other"}

\* C31: after a successful STARTTLS on a host with a DANE policy, a failed
\* verification of the certificates schedules a TLS-RPT failure event (when
\* the domain has a TLS-RPT record) and the host is skipped with the failure
\* of the verification as last_status, whether DANE is required or only
\* tried; deliver() is not called on that session; and a TLS-RPT success
\* event is scheduled only on a session where STARTTLS succeeded and the
\* DANE verification did not fail.
DaneVerificationGate ==
    \A w \in Workers :
       /\ SkippedAt(w, "dane_failed")
       /\ Has(w, "dane_failed") =>
             /\ Has(w, "starttls")
             /\ loc[w].d.last_status \in Failures("Dane")
             /\ Has(w, "report_failure") <=> loc[w].d.tls_report
       /\ Has(w, "report_success") =>
             /\ Has(w, "starttls")
             /\ ~Has(w, "dane_failed")
             /\ ~Has(w, "starttls_unavailable") /\ ~Has(w, "starttls_error")
             /\ Has(w, "deliver_tls")

\* C31, its case: the certificates of a host with a DANE policy did not match
\* after STARTTLS, on a domain with a TLS-RPT record: the failure is
\* reported, the host is skipped and nothing was delivered.
DaneVerificationGateCase ==
    \E w \in Workers :
       /\ pc[w] = "host"
       /\ Has(w, "starttls") /\ Has(w, "dane_failed") /\ Has(w, "report_failure")
       /\ ~Has(w, "report_success")
       /\ loc[w].d.tls_report
       /\ loc[w].d.last_status \in Failures("Dane")
       /\ \A s \in log[w].seen : s[3] \notin {"deliver_tls", "deliver_plain"}

DeliverTags == {"deliver_tls", "deliver_plain", "deliver_local"}

\* The results message.deliver and message.deliver_local give.
DeliveryResults ==
    {Completed, Scheduled, TemporaryFailure("Smtp"), PermanentFailure("Smtp")}

\* This step of worker w called message.deliver or message.deliver_local.
DeliverStep(w) ==
    /\ pc[w] \in {"domain", "session"}
    /\ loc'[w] # loc[w]
    /\ \E n \in DOMAIN log'[w].ev : log'[w].ev[n].e \in DeliverTags

\* C32: within one attempt deliver() or deliver_local() is called at most
\* once for a domain: the step that calls it is the first to do so for the
\* domain, records the result (Completed, Scheduled, a temporary or a
\* permanent failure) on the domain with set_status and leaves the domain
\* for the next one, with no further IP or host tried.
DeliveredOncePerDomain ==
    [][\A w \in Workers :
          DeliverStep(w) =>
             /\ \A s \in log[w].seen :
                   s[1] = loc[w].didx => s[3] \notin DeliverTags
             /\ Cardinality({n \in DOMAIN log'[w].ev :
                                log'[w].ev[n].e \in DeliverTags}) = 1
             /\ loc'[w].didx = loc[w].didx + 1
             /\ pc'[w] \in {"domain", "finish"}
             /\ \E r \in DeliveryResults, schedule \in Schedules :
                   loc'[w].msg.domains =
                      [loc[w].msg.domains EXCEPT ![loc[w].didx] =
                          set_status(CurDomain(w), r, schedule, now)]
      ]_vars

\* C32, its case: the session with the first IP of the first host of an MX
\* domain reached deliver(), which failed temporarily: the failure is on the
\* domain and the worker has left the domain, no other IP or host tried.
DeliveredOncePerDomainCase ==
    \E w \in Workers :
       /\ pc[w] = "finish"
       /\ loc[w].didx = 2
       /\ \E n \in DOMAIN log[w].ev :
             /\ log[w].ev[n].e = "deliver_tls"
             /\ log[w].ev[n].h = 1 /\ log[w].ev[n].i = 1
       /\ loc[w].msg.domains[1].status = TemporaryFailure("Smtp")
       /\ {s \in log[w].seen : s[3] = "connect"} = {<<1, 1, "connect">>}

\* The statuses the failure recorded by the event ev may leave in
\* last_status (none when ev records no failure of a host or an IP).
FailureOf(ev, skipped) ==
    CASE ev.e = "not_authorized" /\ ev.strict -> {PermanentFailure("MtaSts")}
      [] ev.e = "ip_lookup_failed" -> {PermanentFailure("Dns"), TemporaryFailure("Dns")}
      [] ev.e \in {"NoEndEntities", "NotSigned", "NotFound"} /\ ev.strict ->
            {PermanentFailure("Dane")}
      [] ev.e = "Error" /\ ev.strict -> {TemporaryFailure("Dns")}
      [] ev.e \in {"connect_error", "greeting_failed", "ehlo_rejected"} ->
            {PermanentFailure("Smtp"), TemporaryFailure("Smtp")}
      [] ev.e = "dane_failed" -> {PermanentFailure("Dane"), TemporaryFailure("Dane")}
      [] ev.e = "starttls_unavailable" /\ skipped ->
            {PermanentFailure("Tls"), TemporaryFailure("Tls")}
      [] ev.e \in {"starttls_error", "tls_error"} ->
            {PermanentFailure("Tls"), TemporaryFailure("Tls")}
      [] OTHER -> {}

\* The failures this step of worker w recorded.
StepFailures(w) ==
    UNION {FailureOf(log'[w].ev[n], pc'[w] = "host") : n \in DOMAIN log'[w].ev}

\* This step of worker w stays within the host loop of its domain.
HostLoopStep(w) ==
    /\ pc[w] \in {"host", "ip", "session"}
    /\ pc'[w] \in {"host", "ip", "session"}
    /\ loc'[w] # loc[w]

\* This step of worker w ends the host loop with no host left.
AfterHostsStep(w) ==
    /\ pc[w] = "host"
    /\ pc'[w] \in {"domain", "finish"}

\* C33: when the host loop of a domain ends with no host having reached
\* deliver(), the status set on the domain is last_status, and last_status
\* is the failure of the last host or IP that failed: a step of the loop
\* that records a failure overwrites last_status with it whatever it held,
\* and no other step changes it.  A permanent failure makes the domain
\* PermanentFailure with its retry state as it was; a temporary failure, or
\* Scheduled when no failure was recorded, advances the retry state.
LastFailureWins ==
    [][\A w \in Workers :
          /\ HostLoopStep(w) =>
                IF StepFailures(w) # {}
                THEN loc'[w].d.last_status \in StepFailures(w)
                ELSE loc'[w].d.last_status = loc[w].d.last_status
          /\ AfterHostsStep(w) =>
                LET st  == loc[w].d.last_status
                    old == CurDomain(w)
                    new == loc'[w].msg.domains[loc[w].didx]
                IN  /\ new.status = st
                    /\ st.k \in {"Scheduled", "TemporaryFailure", "PermanentFailure"}
                    /\ st.k = "PermanentFailure" =>
                          new.inner = old.inner /\ new.due = old.due
                    /\ st.k # "PermanentFailure" =>
                          /\ new.inner = old.inner + 1
                          /\ \E schedule \in Schedules :
                                new.due = now + schedule[Min2(old.inner, Len(schedule) - 1) + 1]
                    /\ ~\E s \in log[w].seen :
                          s[1] = loc[w].didx /\ s[3] \in {"deliver_tls", "deliver_plain"}
      ]_vars

\* C33, its case: the first host of the domain was connected to and failed
\* with an SMTP, TLS or DANE failure, the second and last host was refused
\* by the enforced MTA-STS policy: the domain is a PermanentFailure of
\* MTA-STS, the failure of the last host.
LastFailureWinsCase ==
    \E w \in Workers :
       /\ pc[w] = "finish"
       /\ loc[w].didx = 2
       /\ <<1, 1, "connect">> \in log[w].seen
       /\ <<1, 2, "not_authorized">> \in log[w].seen
       /\ <<1, 1, "not_authorized">> \notin log[w].seen
       /\ \A s \in log[w].seen : s[3] \notin {"deliver_tls", "deliver_plain"}
       /\ loc[w].msg.domains[1].status = PermanentFailure("MtaSts")

\* The call of a method of Domain made in the last step, if any.
LastCalls == {log[1].ev[n] : n \in {k \in DOMAIN log[1].ev : log[1].ev[k].e \in {"retry", "set_status"}}}

\* The domain the last call was made on, as the call left it.
Called == store.msg.domains[log[1].dom]

\* C34: retry(schedule) on a non-empty schedule sets retry.due to now plus
\* the entry of the schedule at min(inner, len - 1), inner being retry.inner
\* before the call, and then adds exactly 1 to retry.inner: the first retry
\* (inner = 0) uses the first entry, and once inner is at least len - 1 every
\* retry uses the last entry; below that, retry number inner + 1 uses entry
\* inner + 1.  Nothing else of the domain changes.
RetryUsesInnerBeforeCall ==
    \A c \in LastCalls :
       c.e = "retry" =>
          LET n   == c.before.inner
              len == Len(c.schedule)
          IN  /\ len > 0
              /\ Called.inner = n + 1
              /\ n = 0 => Called.due = c.t + c.schedule[1]
              /\ n >= len - 1 => Called.due = c.t + c.schedule[len]
              /\ n < len - 1 => Called.due = c.t + c.schedule[n + 1]
              /\ Called = [c.before EXCEPT !.due = Called.due, !.inner = n + 1]

\* C34, its case: the second retry of a domain under a schedule of two
\* entries used the last entry, and retry.inner went from 1 to 2.
RetryUsesInnerBeforeCallCase ==
    \E c \in LastCalls :
       /\ c.e = "retry"
       /\ c.schedule = <<0, 2>>
       /\ c.before.inner = 1
       /\ Called.inner = 2
       /\ Called.due = c.t + 2
       /\ c.t > 0

\* C35: set_status(status, schedule) always assigns the status it is given;
\* it changes retry.due and retry.inner (as retry does) if and only if that
\* status is TemporaryFailure or Scheduled, and with Completed or
\* PermanentFailure retry.due and retry.inner stay as they were.  The other
\* fields of the domain are untouched.
SetStatusFrame ==
    \A c \in LastCalls :
       c.e = "set_status" =>
          /\ Called.status = c.status
          /\ Called.expires = c.before.expires
          /\ IF c.status.k \in {"TemporaryFailure", "Scheduled"}
             THEN /\ Called.inner = c.before.inner + 1
                  /\ Called.due =
                        c.t + c.schedule[Min2(c.before.inner, Len(c.schedule) - 1) + 1]
             ELSE /\ Called.inner = c.before.inner
                  /\ Called.due = c.before.due

\* C35, its case: a domain that had been retried, and was due later than
\* now, was set to PermanentFailure: the status changed, retry.due and
\* retry.inner did not.
SetStatusFrameCase ==
    \E c \in LastCalls :
       /\ c.e = "set_status"
       /\ c.status = PermanentFailure("Smtp")
       /\ c.before.status.k = "TemporaryFailure"
       /\ c.before.inner = 1
       /\ c.before.due > c.t
       /\ Called.status = PermanentFailure("Smtp")
       /\ Called.inner = 1
       /\ Called.due = c.before.due

\* The positions of a worker inside deliver_task.
TaskPcs == {"task", "throttle"} \cup LoopPcs

\* C36: every run of deliver_task makes exactly one call of save_changes or
\* remove, as the last thing before it returns, and none before: it returns
\* Completed if and only if the call was remove, and Deferred if and only if
\* it was save_changes, which stores the message with an event at its next
\* due time; at the end of the domain loop it returns Deferred exactly when
\* some domain is left Scheduled or TemporaryFailure.
OneWritePerRun ==
    [][\A w \in Workers :
          pc[w] \in TaskPcs =>
             IF pc'[w] = "unlock"
             THEN LET l    == loc'[w]
                      kept == store.events \ {loc[w].due}
                  IN  /\ l.op \in {"save", "remove"}
                      /\ l.result.k = "Completed" <=> l.op = "remove"
                      /\ l.result.k = "Deferred" <=> l.op = "save"
                      /\ l.op = "remove" =>
                            /\ removes' = Incr(removes)
                            /\ IF l.op_ok
                               THEN store' = [msg |-> NoMsg, events |-> kept]
                               ELSE store' = store
                      /\ l.op = "save" =>
                            /\ removes' = removes
                            /\ PendingDomains(l.msg) # {}
                            /\ IF l.op_ok
                               THEN /\ store'.msg = l.msg
                                    /\ kept \subseteq store'.events
                                    /\ store'.events # {}
                                    /\ Cardinality(store'.events \ kept) <= 1
                               ELSE store' = store
                      /\ pc[w] = "finish" =>
                            (l.result.k = "Deferred" <=> PendingDomains(l.msg) # {})
             ELSE store' = store /\ removes' = removes
      ]_vars

\* C36, its case: the domain loop ended with one domain delivered and the
\* other left to retry: the message was saved with its next event and the
\* task returned Deferred, nothing was removed.
OneWritePerRunCase ==
    \E w \in Workers :
       /\ pc[w] = "unlock"
       /\ loc[w].result.k = "Deferred"
       /\ loc[w].op = "save" /\ loc[w].op_ok
       /\ removes = 0
       /\ store.msg = loc[w].msg
       /\ \E d1, d2 \in DOMAIN store.msg.domains :
             /\ store.msg.domains[d1].status = Completed
             /\ store.msg.domains[d2].status.k = "TemporaryFailure"
             /\ store.events = {store.msg.domains[d2].due}

\* The events of this step of worker w hold e.
Does(w, e) == \E n \in DOMAIN log'[w].ev : log'[w].ev[n].e = e

\* This step of worker w is "Obtain TLS reporting" for its current domain.
TlsReportingStep(w) == pc[w] = "domain" /\ pc'[w] = "mta_sts"

\* C37: for a message with the FROM_REPORT flag, and for a domain for which
\* the aggregate interval is Never, the TLS-RPT record is not looked up and
\* tls_report is None; tls_report stays as it is while the domain is
\* processed, and a TLS-RPT event (failure or success) is scheduled only by
\* a step that has tls_report: so none is scheduled for the domain, at any
\* host or IP.
NoReportsWhenExempt ==
    [][\A w \in Workers :
          /\ (/\ TlsReportingStep(w)
              /\ Does(w, "tls_send_never") \/ loc[w].msg.flags.from_report) =>
                /\ ~Does(w, "tlsrpt_lookup")
                /\ ~loc'[w].d.tls_report
          /\ (pc[w] \in LoopPcs /\ HasMsg(w) /\ loc[w].msg.flags.from_report) =>
                /\ ~Does(w, "tlsrpt_lookup")
                /\ ~Does(w, "report_failure") /\ ~Does(w, "report_success")
          /\ (pc[w] \in LoopPcs \ {"domain"} /\ loc'[w].didx = loc[w].didx) =>
                loc'[w].d.tls_report = loc[w].d.tls_report
          /\ (pc[w] \in LoopPcs /\ loc'[w] # loc[w] /\ ~loc[w].d.tls_report) =>
                ~Does(w, "report_failure") /\ ~Does(w, "report_success")
      ]_vars

\* C37, its case: a message that is itself a report was handed to deliver()
\* after a successful STARTTLS, and no TLS-RPT success event was scheduled.
NoReportsWhenExemptCase ==
    \E w \in Workers :
       /\ pc[w] = "finish"
       /\ loc[w].msg.flags.from_report
       /\ Has(w, "starttls") /\ Has(w, "deliver_tls")
       /\ ~Has(w, "report_success")

\* C38 as stated: a connect failure, a failed greeting or a rejected EHLO at
\* an IP of a host that has a further IP makes the worker go on with the
\* next IP of the same host.
IpErrorTriesNextIp ==
    \A w \in Workers : \A n \in DOMAIN log[w].ev :
       LET ev == log[w].ev[n]
       IN  /\ (ev.e = "connect_error" /\ ev.i < loc[w].d.ips) =>
                 InIpLoop(w) /\ loc[w].hidx = ev.h /\ loc[w].iidx = ev.i + 1
           /\ (ev.e \in SmtpFailed /\ ev.i < ev.ips) =>
                 InIpLoop(w) /\ loc[w].hidx = ev.h /\ loc[w].iidx = ev.i + 1

\* C38: a connect failure at an IP makes the worker go on with the next IP
\* of the same host when one remains, with the failure as last_status; a
\* failed greeting or a rejected EHLO on the connection to an IP makes the
\* worker leave the host for the next host, with the failure as
\* last_status and nothing delivered, whether the host has a further IP or
\* not.
ConnectErrorTriesNextIp ==
    \A w \in Workers :
       /\ \A n \in DOMAIN log[w].ev :
             log[w].ev[n].e = "connect_error" =>
                /\ pc[w] = "ip"
                /\ loc[w].hidx = log[w].ev[n].h
                /\ loc[w].iidx = log[w].ev[n].i + 1
                /\ InIpLoop(w) <=> log[w].ev[n].i < loc[w].d.ips
                /\ loc[w].d.last_status \in Failures("Smtp")
       /\ \A e \in SmtpFailed :
             /\ SkippedAt(w, e)
             /\ Has(w, e) => loc[w].d.last_status \in Failures("Smtp")

\* C38, its case: the greeting failed on the connection to the first of the
\* two IPs of the first host, and the worker is at the second host: the
\* second IP was not tried.
ConnectErrorTriesNextIpCase ==
    \E w \in Workers :
       /\ pc[w] = "host"
       /\ loc[w].hidx = 2
       /\ \E n \in DOMAIN log[w].ev :
             /\ log[w].ev[n].e = "greeting_failed"
             /\ log[w].ev[n].h = 1
             /\ log[w].ev[n].i = 1
             /\ log[w].ev[n].ips = 2
       /\ loc[w].d.last_status \in Failures("Smtp")

\* The positions of the step e among the events of the last step of worker w.
Pos(w, e) == {n \in DOMAIN log[w].ev : log[w].ev[n].e = e}

\* Among the events of the last step of worker w, b comes only after a.
After(w, b, a) ==
    Pos(w, b) # {} =>
       /\ Pos(w, a) # {}
       /\ \A i \in Pos(w, a), j \in Pos(w, b) : i < j

StartTlsTags ==
    {"starttls", "starttls_unavailable", "starttls_error", "starttls_disabled"}

\* C39: on every connection the SMTP steps come in order.  On a plain
\* connection the greeting is read before EHLO is said (accepted or
\* rejected), EHLO is accepted before STARTTLS is tried or left out, and
\* deliver() comes after both; on an implicit-TLS connection the TLS upgrade
\* is done before the greeting is read and deliver() comes after both.  A
\* connection on which the greeting, EHLO, the TLS handshake or the DANE
\* verification failed does not reach deliver().
SessionStepsInOrder ==
    \A w \in Workers :
       /\ After(w, "ehlo", "greeting")
       /\ After(w, "ehlo_rejected", "greeting")
       /\ \A t \in StartTlsTags :
             /\ After(w, t, "ehlo")
             /\ Has(w, t) => ~Has(w, "tls") /\ ~Has(w, "tls_error")
       /\ Has(w, "tls") =>
             /\ After(w, "greeting", "tls")
             /\ After(w, "greeting_failed", "tls")
             /\ ~Has(w, "ehlo") /\ ~Has(w, "ehlo_rejected")
       /\ Has(w, "tls_error") => ~Has(w, "greeting") /\ ~Has(w, "greeting_failed")
       /\ \A dl \in {"deliver_tls", "deliver_plain"} :
             /\ After(w, dl, "greeting")
             /\ Has(w, dl) =>
                   \/ After(w, dl, "ehlo") /\ \E t \in StartTlsTags : After(w, dl, t)
                   \/ After(w, dl, "tls") /\ dl = "deliver_tls"
             /\ \A f \in {"greeting_failed", "ehlo_rejected", "starttls_error",
                          "tls_error", "dane_failed"} :
                   Has(w, f) => ~Has(w, dl)

\* C39, its case: on an implicit-TLS connection to a relay host the upgrade
\* came first, then the greeting, then deliver().
SessionStepsInOrderCase ==
    \E w \in Workers :
       /\ Pos(w, "tls") = {1}
       /\ Pos(w, "greeting") = {2}
       /\ Pos(w, "deliver_tls") = {3}
       /\ pc[w] = "finish"

====
